---- MODULE Spec2Model ----
(***************************************************************************)
(* Model of the tape_book order book: the per-side dense price tape        *)
(* (Tape), the sorted spill side (SideDynamic / DynSpillBuffer) and the    *)
(* two-sided book (TapeBook / Book) with its set / promote / re-center /   *)
(* drain protocol.                                                         *)
(*                                                                         *)
(* The repository ships the library twice: the amalgamated header          *)
(* single_include/tape_book.hpp and the modular headers under              *)
(* include/tape_book/.  The two differ in Tape::for_each_set and in the    *)
(* result of a zero write to an empty cell; the variable hdr says which    *)
(* one a run was built from.                                               *)
(*                                                                         *)
(* Sizes are scaled: a bitmap word has WORD_BITS bits instead of 64, the   *)
(* price type has PX_BITS bits instead of 32, the tape has WORDS words.    *)
(* Index arithmetic is done in a wider integer type in the code (i64 for   *)
(* i32 prices), so sums and differences of prices are exact here.  The     *)
(* spill pool is scaled alike: its smallest block has MIN_BLOCK = 2 levels *)
(* instead of 16, it has NUM_CLASSES = 2 size classes instead of 12, and a *)
(* spill side's first capacity is FIRST_CAP = 2 instead of 16.             *)
(***************************************************************************)
EXTENDS Integers, Sequences, FiniteSets, TLC

\* ------------------------------------------------------------ sizes
WORD_BITS == 2
WORDS == 2
N == WORDS * WORD_BITS
PX_BITS == 4
MaxQty == 2
MaxLevels == 2
FIRST_CAP == 2
MIN_BLOCK == 2
MIN_BLOCK_LOG2 == 1
NUM_CLASSES == 2
MaxFails == 1
NBufs == 2

lowest_px == -(2 ^ (PX_BITS - 1))
highest_px == (2 ^ (PX_BITS - 1)) - 1
PriceT == lowest_px .. highest_px
QtyT == 0 .. MaxQty

min_valid_anchor == lowest_px + (N - 1)
max_valid_anchor == highest_px - (N - 1)
Anchors == min_valid_anchor .. max_valid_anchor

Headers == {"single_include", "include"}
MaxCaps == {1, 2}
PxIn == {-8, 1, 2, 7}
MidIn == {-6, 2}
AnchorsIn == {-1, 0, 4}

\* static_cast<PriceT>(x) of a wider integer: two's complement wrap
cast_px(x) == ((x - lowest_px) % (2 ^ PX_BITS)) + lowest_px

\* ------------------------------------------------------------ helpers
MaxOf(S) == CHOOSE x \in S : \A y \in S : y <= x
MinOf(S) == CHOOSE x \in S : \A y \in S : x <= y

RECURSIVE AscSeq(_)
AscSeq(S) == IF S = {} THEN <<>> ELSE <<MinOf(S)>> \o AscSeq(S \ {MinOf(S)})

VARIABLES hdr, bids, asks, spill, halted, lossy

\* the spill pool, the blocks a direct caller of the pool holds (blocks) with
\* the order in which the free blocks of each class were given back (freed),
\* the spill buffers of the buffer runs (bufs) and the multi-book pool (mbp)
VARIABLES pool, blocks, freed, bufs, mbp

vars == <<hdr, bids, asks, spill, halted, lossy, pool, blocks, freed, bufs, mbp>>

book_vars == <<hdr, bids, asks, spill, halted, lossy>>
not_book == <<pool, blocks, freed, bufs, mbp>>

\* ------------------------------------------------------------ Tape
empty_best(IsBid) == IF IsBid THEN -1 ELSE N

\* Tape default member initialisers
TapeNew(IsBid) ==
  [qty |-> [i \in 0 .. N - 1 |-> 0],
   bits |-> [w \in 0 .. WORDS - 1 |-> {}],
   anchor_px |-> 0,
   best_idx |-> empty_best(IsBid)]

tape_reset(IsBid, anchor) ==
  [qty |-> [i \in 0 .. N - 1 |-> 0],
   bits |-> [w \in 0 .. WORDS - 1 |-> {}],
   anchor_px |-> anchor,
   best_idx |-> empty_best(IsBid)]

idx_from_price(t, px) ==
  LET d == px - t.anchor_px
  IN IF d >= 0 /\ d < N THEN d ELSE -1

price_from_idx(t, i) == cast_px(t.anchor_px + i)

tape_best_px(t, IsBid) ==
  IF IsBid
  THEN (IF t.best_idx < 0 THEN lowest_px ELSE price_from_idx(t, t.best_idx))
  ELSE (IF t.best_idx >= N THEN highest_px ELSE price_from_idx(t, t.best_idx))

\* qty[best_idx]; an index the array does not have reads as 0 here
tape_best_qty(t, IsBid) ==
  IF IsBid
  THEN (IF t.best_idx < 0 THEN 0 ELSE t.qty[t.best_idx])
  ELSE (IF t.best_idx >= N THEN 0 ELSE t.qty[t.best_idx])

is_empty(t, IsBid) == IF IsBid THEN t.best_idx < 0 ELSE t.best_idx >= N

\* a bitmap rebuild that forgets bit 0 of every word
word_of_qty_drop0(qty, w) == {b \in 1 .. WORD_BITS - 1 : qty[w * WORD_BITS + b] # 0}

\* the bitmap word rebuilt from the quantity cells of word w
word_of_qty(qty, w) == {b \in 0 .. WORD_BITS - 1 : qty[w * WORD_BITS + b] # 0}

scan_prev_set(bits, idx) ==
  IF idx < 0 THEN -1
  ELSE LET wi == idx \div WORD_BITS
           bi == idx % WORD_BITS
           m == {b \in bits[wi] : b <= bi}
           X(w) == IF w = wi THEN m ELSE bits[w]
           ws == {w \in 0 .. wi : X(w) # {}}
       IN IF ws = {} THEN -1
          ELSE MaxOf(ws) * WORD_BITS + MaxOf(X(MaxOf(ws)))

scan_next_set(bits, idx) ==
  IF idx >= N THEN N
  ELSE LET wi == idx \div WORD_BITS
           bi == idx % WORD_BITS
           m == {b \in bits[wi] : b >= bi}
           X(w) == IF w = wi THEN m ELSE bits[w]
           ws == {w \in wi .. WORDS - 1 : X(w) # {}}
       IN IF ws = {} THEN N
          ELSE MinOf(ws) * WORD_BITS + MinOf(X(MinOf(ws)))

verify_invariants(t, IsBid) ==
  /\ \A w \in 0 .. WORDS - 1 : t.bits[w] = word_of_qty(t.qty, w)
  /\ t.best_idx = (IF IsBid THEN scan_prev_set(t.bits, N - 1)
                            ELSE scan_next_set(t.bits, 0))

\* right_mask of for_each_set: the amalgamated header masks the last word
\* by R; the modular header does so only when the range is one word.
right_mask(h, wl, wr, R) ==
  IF h = "single_include" \/ wr = wl
  THEN {b \in 0 .. WORD_BITS - 1 : b <= R % WORD_BITS}
  ELSE 0 .. WORD_BITS - 1

\* the indices for_each_set(L, R, fn) hands to fn, in call order
for_each_set(h, bits, L, R) ==
  IF L > R THEN <<>>
  ELSE LET wl == L \div WORD_BITS
           wr == R \div WORD_BITS
           left_mask == {b \in 0 .. WORD_BITS - 1 : b >= L % WORD_BITS}
           word(w) == (IF w = wl THEN bits[w] \cap left_mask ELSE bits[w])
                        \cap (IF w = wr THEN right_mask(h, wl, wr, R)
                                        ELSE 0 .. WORD_BITS - 1)
       IN AscSeq({w * WORD_BITS + b : <<w, b>> \in
                   {p \in (wl .. wr) \X (0 .. WORD_BITS - 1) : p[2] \in word(p[1])}})

Range(s) == {s[i] : i \in 1 .. Len(s)}

\* ------------------------------------------------------------ Tape mutators
\* result of writing zero to an in-window cell that is already zero
zero_on_empty(h) == IF h = "single_include" THEN "Erase" ELSE "Update"

\* the two early returns of set_qty with Promote: nothing written, nothing
\* handed to the sink
set_qty_promote_pushed(t, px, q) ==
  [t |-> t, rc |-> "Promote", push |-> <<[px |-> px, qty |-> q]>>]

set_qty_promote(t, px, q) ==
  [t |-> t, rc |-> "Promote", push |-> <<>>]

\* set_qty: the tape afterwards, the UpdateResult, and the calls made to
\* the sink (push<IsBid>(px, qty)), in order
set_qty(h, t, IsBid, px, q) ==
  LET i == idx_from_price(t, px)
  IN IF i < 0 \/ i >= N
     THEN IF q = 0
          THEN [t |-> t, rc |-> "Spill", push |-> <<[px |-> px, qty |-> 0]>>]
          ELSE IF is_empty(t, IsBid)
          THEN set_qty_promote(t, px, q)
          ELSE IF (IF IsBid THEN px > tape_best_px(t, IsBid)
                            ELSE px < tape_best_px(t, IsBid))
          THEN set_qty_promote(t, px, q)
          ELSE [t |-> t, rc |-> "Spill", push |-> <<[px |-> px, qty |-> q]>>]
     ELSE LET cell == t.qty[i]
              w == i \div WORD_BITS
              m == i % WORD_BITS
          IN IF q = 0 /\ cell = 0
             THEN [t |-> t, rc |-> zero_on_empty(h), push |-> <<>>]
             ELSE IF q = 0
             THEN LET bits1 == [t.bits EXCEPT ![w] = @ \ {m}]
                  IN [t |-> [t EXCEPT !.qty[i] = 0,
                                      !.bits = bits1,
                                      !.best_idx =
                                         IF i = t.best_idx
                                         THEN (IF IsBid THEN scan_prev_set(bits1, i - 1)
                                                        ELSE scan_next_set(bits1, i + 1))
                                         ELSE @],
                      rc |-> "Erase", push |-> <<>>]
             ELSE [t |-> [t EXCEPT !.qty[i] = q,
                                   !.bits[w] = @ \cup {m},
                                   !.best_idx =
                                      IF IsBid THEN (IF i > @ THEN i ELSE @)
                                               ELSE (IF i < @ THEN i ELSE @)],
                   rc |-> IF cell = 0 THEN "Insert" ELSE "Update",
                   push |-> <<>>]

\* rotate_qty_right(k): the three copies of the code, k <= N/2 or not
rotate_qty_right(qty, k) ==
  IF k = 0 THEN qty
  ELSE IF k <= N \div 2
  THEN [i \in 0 .. N - 1 |-> IF i < k THEN qty[N - k + i] ELSE qty[i - k]]
  ELSE LET left == N - k
       IN [i \in 0 .. N - 1 |-> IF i < N - left THEN qty[i + left]
                                                  ELSE qty[i - (N - left)]]

\* k & (N - 1) for a power of two N
rotate_qty_left(qty, k) ==
  LET kk == k % N
  IN IF kk = 0 THEN qty ELSE rotate_qty_right(qty, N - kk)

\* spill_one applied to the indices for_each_set visits: cells zeroed and
\* the levels pushed to the sink, in order
RECURSIVE spill_each(_, _, _)
spill_each(t, idxs, acc) ==
  IF idxs = <<>> THEN [qty |-> t.qty, push |-> acc]
  ELSE LET i == Head(idxs)
           q == t.qty[i]
       IN IF q = 0 THEN spill_each(t, Tail(idxs), acc)
          ELSE spill_each([t EXCEPT !.qty[i] = 0], Tail(idxs),
                          Append(acc, [px |-> price_from_idx(t, i), qty |-> q]))

\* the bitmap rebuilt from the quantity cells and best_idx rescanned
\* (the tail of recenter_to_anchor)
tape_rescanned(qty1, bits1, IsBid, anchor) ==
  [qty |-> qty1,
   bits |-> bits1,
   anchor_px |-> anchor,
   best_idx |-> IF IsBid THEN scan_prev_set(bits1, N - 1)
                         ELSE scan_next_set(bits1, 0)]

tape_rebuilt(qty1, IsBid, anchor) ==
  tape_rescanned(qty1, [w \in 0 .. WORDS - 1 |-> word_of_qty(qty1, w)], IsBid, anchor)

\* recenter_to_anchor once the cells leaving the window are spilled (sp):
\* rotate by |d| unless everything left, then rebuild
recenter_rotated(sp, d, IsBid, new_anchor) ==
  [t |-> tape_rebuilt(IF d >= N \/ d <= -N THEN sp.qty
                      ELSE IF d > 0 THEN rotate_qty_left(sp.qty, d)
                      ELSE rotate_qty_right(sp.qty, -d),
                      IsBid, new_anchor),
   push |-> sp.push]

recenter_to_anchor(h, t, IsBid, new_anchor) ==
  LET d == new_anchor - t.anchor_px
      L == IF d >= N \/ d <= -N THEN 0 ELSE IF d > 0 THEN 0 ELSE N - (-d)
      R == IF d >= N \/ d <= -N THEN N - 1 ELSE IF d > 0 THEN d - 1 ELSE N - 1
  IN IF d = 0 THEN [t |-> t, push |-> <<>>]
     ELSE recenter_rotated(spill_each(t, for_each_set(h, t.bits, L, R), <<>>),
                           d, IsBid, new_anchor)

\* erase_range once the visited cells are zeroed (qty1): the words of the
\* range rebuilt, best_idx rescanned when it lay in the range
erase_rebuilt(t, IsBid, start_idx, end_idx, qty1, bits1) ==
  [t EXCEPT !.qty = qty1,
            !.bits = bits1,
            !.best_idx =
               IF IsBid
               THEN (IF @ >= start_idx THEN scan_prev_set(bits1, start_idx - 1) ELSE @)
               ELSE (IF @ <= end_idx THEN scan_next_set(bits1, end_idx + 1) ELSE @)]

erase_zeroed(t, IsBid, start_idx, end_idx, qty1) ==
  erase_rebuilt(t, IsBid, start_idx, end_idx, qty1,
                [w \in 0 .. WORDS - 1 |->
                   IF w >= start_idx \div WORD_BITS /\ w <= end_idx \div WORD_BITS
                   THEN word_of_qty(qty1, w) ELSE t.bits[w]])

erase_hit(t, IsBid, start_idx, end_idx, hit) ==
  erase_zeroed(t, IsBid, start_idx, end_idx,
               [i \in 0 .. N - 1 |-> IF i \in hit THEN 0 ELSE t.qty[i]])

erase_range(h, t, IsBid, start_idx, end_idx) ==
  IF start_idx > end_idx THEN t
  ELSE erase_hit(t, IsBid, start_idx, end_idx,
                 Range(for_each_set(h, t.bits, start_idx, end_idx)))

\* Tape::erase_better: the tape afterwards; the sink's erase_better(px) is
\* called on every path
tape_erase_better(h, t, IsBid, px) ==
  LET offset == px - t.anchor_px
  IN IF IsBid
     THEN (IF offset < 0 THEN erase_range(h, t, IsBid, 0, N - 1)
           ELSE IF offset >= N THEN t
           ELSE erase_range(h, t, IsBid, offset, N - 1))
     ELSE (IF offset < 0 THEN t
           ELSE IF offset >= N THEN erase_range(h, t, IsBid, 0, N - 1)
           ELSE erase_range(h, t, IsBid, 0, offset))

\* ------------------------------------------------------------ SideDynamic
\* a spill side: a[0..n) as the sequence a (n = Len(a)), its capacity and
\* max_cap.  The book of this model is built without a pool and malloc is
\* taken to succeed.
SideNew(mc) == [a |-> <<>>, cap |-> 0, max_cap |-> mc]

RECURSIVE lb_loop(_, _, _, _)
lb_loop(a, px, lo, hi) ==
  IF lo < hi
  THEN LET mid == (lo + hi) \div 2
       IN IF a[mid + 1].px < px THEN lb_loop(a, px, mid + 1, hi)
                                ELSE lb_loop(a, px, lo, mid)
  ELSE lo

\* lower bound: 0-based index of the first element with price >= px
lb(a, px) == lb_loop(a, px, 0, Len(a))

\* a growth step that doubles past max_cap
ensure_cap_unclamped(s) ==
  [s EXCEPT !.cap = IF s.cap # 0 THEN s.cap * 2 ELSE FIRST_CAP]

\* a growth step that allocates once and never doubles
ensure_cap_once(s) ==
  IF s.cap # 0 THEN s
  ELSE [s EXCEPT !.cap = IF FIRST_CAP > s.max_cap THEN s.max_cap ELSE FIRST_CAP]

ensure_cap(s) ==
  LET c0 == IF s.cap # 0 THEN s.cap * 2 ELSE FIRST_CAP
      new_cap == IF c0 > s.max_cap THEN s.max_cap ELSE c0
  IN IF new_cap <= s.cap THEN s ELSE [s EXCEPT !.cap = new_cap]

\* an insert that appends the level whatever the position found
insert_at_end(a, j, lv) == Append(a, lv)

\* memmove(&a[j + 1], &a[j], n - j); a[j] = lv; ++n
insert_at(a, j, lv) == SubSeq(a, 1, j) \o <<lv>> \o SubSeq(a, j + 1, Len(a))

\* memmove(&a[i], &a[i + 1], n - i - 1); --n
remove_at(a, i) == SubSeq(a, 1, i) \o SubSeq(a, i + 2, Len(a))

\* add_point after the growth step, with i = lb(px): the side afterwards,
\* and whether a level was evicted or the incoming update dropped (lost)
\* an eviction that gives up the side's best level
evict_best(a, IsBid) == IF IsBid THEN SubSeq(a, 1, Len(a) - 1) ELSE Tail(a)

\* an eviction that removes nothing
evict_none(a, IsBid) == a

\* the levels left by the eviction of a full side: memmove(&a[0], &a[1],
\* n - 1); --n on the bid side, --n on the ask side
evict(a, IsBid) == IF IsBid THEN Tail(a) ELSE SubSeq(a, 1, Len(a) - 1)

add_at(s, IsBid, px, q, i) ==
  IF i < Len(s.a) /\ s.a[i + 1].px = px
  THEN IF q = 0
       THEN [s |-> [s EXCEPT !.a = remove_at(s.a, i)], lost |-> FALSE]
       ELSE [s |-> [s EXCEPT !.a[i + 1].qty = q], lost |-> FALSE]
  ELSE IF q = 0 THEN [s |-> s, lost |-> FALSE]
  ELSE IF Len(s.a) = s.cap
  THEN IF (IF IsBid THEN px <= s.a[1].px ELSE px >= s.a[Len(s.a)].px)
       THEN [s |-> s, lost |-> TRUE]
       ELSE [s |-> [s EXCEPT !.a = insert_at(evict(s.a, IsBid),
                                             lb(evict(s.a, IsBid), px),
                                             [px |-> px, qty |-> q])],
             lost |-> TRUE]
  ELSE [s |-> [s EXCEPT !.a = insert_at(s.a, i, [px |-> px, qty |-> q])],
        lost |-> FALSE]

add_point(s0, IsBid, px, q) ==
  add_at(IF Len(s0.a) = s0.cap /\ s0.cap < s0.max_cap THEN ensure_cap(s0) ELSE s0,
         IsBid, px, q, lb(s0.a, px))

\* a scan that stops one level early: the level at hi_px is left behind
RECURSIVE drain_scan_short(_, _, _)
drain_scan_short(a, R, hi_px) ==
  IF R < Len(a) /\ a[R + 1].px < hi_px THEN drain_scan_short(a, R + 1, hi_px) ELSE R

RECURSIVE drain_scan(_, _, _)
drain_scan(a, R, hi_px) ==
  IF R < Len(a) /\ a[R + 1].px <= hi_px THEN drain_scan(a, R + 1, hi_px) ELSE R

\* drain_range with L = lb(lo_px) and R past the last price <= hi_px: the
\* side afterwards and the levels handed to the visitor
drain_cut(s, L, R) ==
  [s |-> [s EXCEPT !.a = SubSeq(s.a, 1, L) \o SubSeq(s.a, R + 1, Len(s.a))],
   out |-> SelectSeq(SubSeq(s.a, L + 1, R), LAMBDA lv : lv.qty # 0)]

drain_from(s, L, hi_px) == drain_cut(s, L, drain_scan(s.a, L, hi_px))

drain_range(s, lo_px, hi_px) ==
  IF Len(s.a) = 0 THEN [s |-> s, out |-> <<>>]
  ELSE drain_from(s, lb(s.a, lo_px), hi_px)

side_erase_better(s, IsBid, th) ==
  [s EXCEPT !.a = SelectSeq(s.a, LAMBDA lv : IF IsBid THEN ~(lv.px >= th)
                                                       ELSE ~(lv.px <= th))]

side_best_px(s, IsBid) ==
  IF Len(s.a) = 0 THEN (IF IsBid THEN lowest_px ELSE highest_px)
  ELSE IF IsBid THEN s.a[Len(s.a)].px ELSE s.a[1].px

side_best_qty(s, IsBid) ==
  IF Len(s.a) = 0 THEN 0
  ELSE IF IsBid THEN s.a[Len(s.a)].qty ELSE s.a[1].qty

\* a clear that leaves the levels where they are
side_clear_keep(s) == s

side_clear(s) == [s EXCEPT !.a = <<>>]

\* the sink's push<IsBid> for each call of a sequence, in order
RECURSIVE push_all(_, _, _, _)
RECURSIVE push_rest(_, _, _, _)
push_rest(r, IsBid, calls, lost) == push_all(r.s, IsBid, calls, lost \/ r.lost)

push_all(s, IsBid, calls, lost) ==
  IF calls = <<>> THEN [s |-> s, lost |-> lost]
  ELSE push_rest(add_point(s, IsBid, Head(calls).px, Head(calls).qty),
                 IsBid, Tail(calls), lost)

\* ------------------------------------------------------------ SpillPool
\* a pointer into the arena is the offset of a block; null is -1.  The arena
\* is mem: a cell holds a level (written by the block's owner) or, in the
\* first cell of a free block, the FreeNode's next_offset.
null == -1
Classes == 0 .. NUM_CLASSES - 1
ArenaCaps == {4, 6}
CapsIn == {1, 2, 3, 4}
Offsets == 0 .. MaxOf(ArenaCaps) - 1

\* 32 - __builtin_clz(x): the number of bits of x
RECURSIVE bit_width(_)
bit_width(x) == IF x = 0 THEN 0 ELSE 1 + bit_width(x \div 2)

size_class(cap) ==
  IF cap <= MIN_BLOCK THEN 0
  ELSE LET cls == bit_width(cap - 1) - MIN_BLOCK_LOG2
       IN IF cls < 0 THEN 0
          ELSE IF cls >= NUM_CLASSES THEN NUM_CLASSES - 1 ELSE cls

class_size(cls) == MIN_BLOCK * (2 ^ cls)

\* SpillPool(total_cap); alive turns FALSE when ~SpillPool frees the arena
PoolNew(total_cap) ==
  [arena_cap |-> total_cap,
   watermark |-> 0,
   free_heads |-> [c \in Classes |-> -1],
   alloc_fail_count |-> 0,
   mem |-> [o \in 0 .. total_cap - 1 |-> 0],
   alive |-> TRUE]

\* a bump test that refuses a block ending exactly at the arena's end
alloc_fits_strict(p, actual) == p.watermark + actual < p.arena_cap

\* the bump allocator's test
alloc_fits(p, actual) == p.watermark + actual <= p.arena_cap

\* allocate(cap): the pool afterwards and the pointer returned
allocate(p, cap) ==
  LET cls == size_class(cap)
      actual == class_size(cls)
  IN IF p.free_heads[cls] # -1
     THEN [pool |-> [p EXCEPT !.free_heads[cls] = p.mem[p.free_heads[cls]]],
           ptr |-> p.free_heads[cls]]
     ELSE IF alloc_fits(p, actual)
     THEN [pool |-> [p EXCEPT !.watermark = @ + actual], ptr |-> p.watermark]
     ELSE [pool |-> [p EXCEPT !.alloc_fail_count = @ + 1], ptr |-> null]

\* a deallocate that forgets the blocks already on the free list
deallocate_unlinked(p, ptr, cap) ==
  IF ptr = null THEN p
  ELSE [p EXCEPT !.mem[ptr] = -1, !.free_heads[size_class(cap)] = ptr]

deallocate(p, ptr, cap) ==
  IF ptr = null THEN p
  ELSE [p EXCEPT !.mem[ptr] = p.free_heads[size_class(cap)],
                 !.free_heads[size_class(cap)] = ptr]

\* a copy that leaves out the first level
memcpy_skip_first(p, dst, src, n) ==
  [p EXCEPT !.mem = [o \in DOMAIN @ |->
                       IF o > dst /\ o < dst + n /\ src + (o - dst) \in DOMAIN @
                       THEN @[src + (o - dst)] ELSE @[o]]]

\* std::memcpy(dst, src, n levels) inside the arena
memcpy(p, dst, src, n) ==
  [p EXCEPT !.mem = [o \in DOMAIN @ |->
                       IF o >= dst /\ o < dst + n /\ src + (o - dst) \in DOMAIN @
                       THEN @[src + (o - dst)] ELSE @[o]]]

\* reallocate once allocate has answered r
reallocate_copy(r, old, old_cap, used) ==
  IF r.ptr = null THEN r
  ELSE IF old # null
  THEN [pool |-> deallocate(memcpy(r.pool, r.ptr, old, used), old, old_cap),
        ptr |-> r.ptr]
  ELSE r

reallocate(p, old, old_cap, new_cap, used) ==
  reallocate_copy(allocate(p, new_cap), old, old_cap, used)

\* the free list of a class as the FreeNodes chain it: head first
RECURSIVE free_chain(_, _, _)
free_chain(p, off, fuel) ==
  IF off = -1 \/ fuel = 0 THEN <<>>
  ELSE <<off>> \o free_chain(p, p.mem[off], fuel - 1)

free_list(p, cls) == free_chain(p, p.free_heads[cls], p.arena_cap)

\* ------------------------------------------------------------ pooled spill
\* a spill side with its block: a is the levels a[0 .. n - 1], blk the block
\* pointer (null before the first growth; heap for a block from malloc)
heap == -2
PoolSide(mc) == [a |-> <<>>, cap |-> 0, max_cap |-> mc, blk |-> null]

\* ensure_cap(pool): the pool and the side afterwards, and whether the
\* allocator returned null.  use_pool is pool != nullptr; malloc is taken
\* never to fail.
ensure_cap_got(s, new_cap, r) ==
  IF r.ptr = null THEN [pool |-> r.pool, s |-> s, failed |-> TRUE]
  ELSE [pool |-> r.pool, s |-> [s EXCEPT !.blk = r.ptr, !.cap = new_cap],
        failed |-> FALSE]

ensure_cap_pool(p, use_pool, s) ==
  IF ensure_cap(s).cap <= s.cap THEN [pool |-> p, s |-> s, failed |-> FALSE]
  ELSE IF use_pool
  THEN ensure_cap_got(s, ensure_cap(s).cap,
                      reallocate(p, s.blk, s.cap, ensure_cap(s).cap, Len(s.a)))
  ELSE [pool |-> p, s |-> [s EXCEPT !.blk = heap, !.cap = ensure_cap(s).cap],
        failed |-> FALSE]

\* add_point after the growth step g: with n = cap = 0 the eviction test
\* reads a[0] (bid) or a[n - 1] (ask) through the null block pointer (trap)
add_point_grown(g, IsBid, px, q) ==
  IF q # 0 /\ px \notin {g.s.a[i].px : i \in 1 .. Len(g.s.a)}
       /\ Len(g.s.a) = g.s.cap /\ g.s.cap = 0
  THEN [pool |-> g.pool, s |-> g.s, lost |-> TRUE, failed |-> g.failed,
        trap |-> TRUE]
  ELSE [pool |-> g.pool,
        s |-> add_at(g.s, IsBid, px, q, lb(g.s.a, px)).s,
        lost |-> add_at(g.s, IsBid, px, q, lb(g.s.a, px)).lost,
        failed |-> g.failed, trap |-> FALSE]

add_point_pool(p, use_pool, s, IsBid, px, q) ==
  add_point_grown(IF Len(s.a) = s.cap /\ s.cap < s.max_cap
                  THEN ensure_cap_pool(p, use_pool, s)
                  ELSE [pool |-> p, s |-> s, failed |-> FALSE],
                  IsBid, px, q)

\* release(pool): the pool afterwards
release(p, use_pool, s) ==
  IF use_pool THEN deallocate(p, s.blk, s.cap) ELSE p

\* a moved-from side that keeps its block
moved_from_kept(s) == s

\* the side a move leaves behind: a = nullptr, n = 0, cap = 0
moved_from(s) == [s EXCEPT !.a = <<>>, !.cap = 0, !.blk = null]

\* a book with a pooled or malloc-backed spill buffer; live is FALSE for
\* storage that holds no constructed book
BookNew(mc, use_pool) ==
  [live |-> TRUE, bids |-> TapeNew(TRUE), asks |-> TapeNew(FALSE),
   bid |-> PoolSide(mc), ask |-> PoolSide(mc), pool_ |-> use_pool]

NoBook ==
  [live |-> FALSE, bids |-> TapeNew(TRUE), asks |-> TapeNew(FALSE),
   bid |-> PoolSide(1), ask |-> PoolSide(1), pool_ |-> FALSE]

\* Book(Book&&): the new book and what is left of the source
move_construct(o) ==
  [dst |-> o,
   src |-> [o EXCEPT !.bid = moved_from(@), !.ask = moved_from(@)]]

\* ~DynSpillBuffer / release(): bid.release(pool_); ask.release(pool_)
release_both(p, B) ==
  release(release(p, B.pool_, B.bid), B.pool_, B.ask)

\* Book::operator=(Book&&) with this != &o: the tapes are copied, the
\* buffer releases its blocks and takes the source's
move_assign(p, d, o) ==
  [pool |-> release_both(p, d),
   dst |-> [o EXCEPT !.live = TRUE],
   src |-> [o EXCEPT !.bid = moved_from(@), !.ask = moved_from(@)]]

\* set on a book of a slot, for a price that set_qty does not answer with
\* Promote: the in-window write, or the push of the out-of-window price
buf_side(B, IsBid) == IF IsBid THEN B.bid ELSE B.ask
buf_tape(B, IsBid) == IF IsBid THEN B.bids ELSE B.asks

buf_pushed(p, B, IsBid, r1) ==
  IF r1.push = <<>>
  THEN [pool |-> p, s |-> buf_side(B, IsBid), lost |-> FALSE,
        failed |-> FALSE, trap |-> FALSE]
  ELSE add_point_pool(p, B.pool_, buf_side(B, IsBid), IsBid,
                      Head(r1.push).px, Head(r1.push).qty)

buf_set_done(B, IsBid, r1, ps) ==
  [pool |-> ps.pool,
   book |-> IF IsBid THEN [B EXCEPT !.bids = r1.t, !.bid = ps.s]
            ELSE [B EXCEPT !.asks = r1.t, !.ask = ps.s],
   rc |-> r1.rc, lost |-> ps.lost, failed |-> ps.failed, trap |-> ps.trap]

buf_set_first(p, B, IsBid, r1) ==
  buf_set_done(B, IsBid, r1, buf_pushed(p, B, IsBid, r1))

buf_set(h, p, B, IsBid, px, q) ==
  buf_set_first(p, B, IsBid, set_qty(h, buf_tape(B, IsBid), IsBid, px, q))

\* ------------------------------------------------------------ MultiBookPool3
\* the three tiers' books are std::vector<Book>: the elements and the
\* capacity of the storage
Tiers == {"High", "Medium", "Low"}
VecNew == [items |-> <<>>, capacity |-> 0]

\* MultiBookPool3(max_cap, pool_cap) with pool_cap > 0.  destroyed counts
\* the members the destructor has destroyed so far; late records a
\* deallocate issued to the pool after ~SpillPool.
MultiNew(max_cap) ==
  [high_ |-> VecNew, medium_ |-> VecNew, low_ |-> VecNew,
   default_max_cap_ |-> max_cap, destroyed |-> 0, late |-> FALSE]

vec_of(m, tier) ==
  IF tier = "High" THEN m.high_ ELSE IF tier = "Medium" THEN m.medium_ ELSE m.low_

with_vec(m, tier, v) ==
  IF tier = "High" THEN [m EXCEPT !.high_ = v]
  ELSE IF tier = "Medium" THEN [m EXCEPT !.medium_ = v]
  ELSE [m EXCEPT !.low_ = v]

\* the books of a sequence destroyed in order: the pool afterwards
RECURSIVE destroy_all(_, _)
destroy_all(p, bs) ==
  IF bs = <<>> THEN p ELSE destroy_all(release_both(p, Head(bs)), Tail(bs))

\* the vector grows: every element is move-constructed into the new storage
\* (Book's move constructor is noexcept) and the old elements are destroyed
vec_relocated(p, v) ==
  [pool |-> destroy_all(p, [i \in 1 .. Len(v.items) |->
                              move_construct(v.items[i]).src]),
   v |-> [items |-> [i \in 1 .. Len(v.items) |-> move_construct(v.items[i]).dst],
          capacity |-> IF v.capacity = 0 THEN 1 ELSE 2 * v.capacity]]

\* an emplace that puts the new element in front
vec_prepended(r, B) ==
  [pool |-> r.pool, v |-> [r.v EXCEPT !.items = <<B>> \o @]]

vec_appended(r, B) ==
  [pool |-> r.pool, v |-> [r.v EXCEPT !.items = Append(@, B)]]

vec_emplace_back(p, v, B) ==
  vec_appended(IF Len(v.items) = v.capacity THEN vec_relocated(p, v)
               ELSE [pool |-> p, v |-> v], B)

\* Book::reset(anchor)
book_reset(B, anchor) ==
  [B EXCEPT !.bids = tape_reset(TRUE, anchor), !.asks = tape_reset(FALSE, anchor),
            !.bid = side_clear(@), !.ask = side_clear(@)]

\* alloc(tier, anchor_px, max_cap): the pool and the multi-book pool
\* afterwards and the handle returned
mb_alloc_done(m, tier, idx, r) ==
  [pool |-> r.pool, mbp |-> with_vec(m, tier, r.v),
   h |-> [tier |-> tier, idx |-> idx]]

mb_alloc(m, p, tier, anchor_px, max_cap) ==
  mb_alloc_done(m, tier, Len(vec_of(m, tier).items),
                vec_emplace_back(p, vec_of(m, tier),
                                 book_reset(BookNew(IF max_cap = 0
                                                    THEN m.default_max_cap_
                                                    ELSE max_cap, TRUE),
                                            anchor_px)))

\* the book with_book(h, fn) hands to fn
with_book(m, h) == vec_of(m, h.tier).items[h.idx + 1]

\* a destructor that frees the pool before the books
destroy_order_pool_first == <<"pool_", "Low", "Medium", "High">>

\* ~MultiBookPool3: the members in reverse order of declaration
destroy_order == <<"Low", "Medium", "High", "pool_">>

\* ------------------------------------------------------------ TapeBook
compute_anchor(px, offset) ==
  IF px < lowest_px + offset THEN min_valid_anchor
  ELSE LET result == px - offset
       IN IF result > max_valid_anchor THEN max_valid_anchor ELSE cast_px(result)

\* the visitor of drain: tape.set_qty(p, qq, nospill) for each drained level
RECURSIVE drain_into(_, _, _, _)
drain_into(h, t, IsBid, lvls) ==
  IF lvls = <<>> THEN t
  ELSE drain_into(h, set_qty(h, t, IsBid, Head(lvls).px, Head(lvls).qty).t,
                  IsBid, Tail(lvls))

\* a promotion anchor one window too low: the new window ends below px
promote_anchor_low(px) == compute_anchor(px, N)

\* a promotion anchor without the last clamp: never lowered to px
promote_anchor_unlowered(px) ==
  LET A0 == compute_anchor(px, N \div 2)
      minA == compute_anchor(px, N - 1)
  IN IF A0 < minA THEN minA ELSE A0

\* the anchor set_impl re-centers to after a Promote
promote_anchor(px) ==
  LET A0 == compute_anchor(px, N \div 2)
      minA == compute_anchor(px, N - 1)
      A1 == IF A0 < minA THEN minA ELSE A0
  IN IF A1 > px THEN px ELSE A1

\* recenter_to_anchor(A, spill) followed by the drain of the new window:
\* the displaced levels pushed (sp), the window [lo, hi] drained (dr) and
\* written to the tape
drain_written(h, t, IsBid, dr, lost) ==
  [t |-> drain_into(h, t, IsBid, dr.out), s |-> dr.s, lost |-> lost]

drain_window(h, t, IsBid, sp) ==
  drain_written(h, t, IsBid,
                drain_range(sp.s, t.anchor_px, cast_px(t.anchor_px + N - 1)),
                sp.lost)

drain_after(h, s, IsBid, rc) ==
  drain_window(h, rc.t, IsBid, push_all(s, IsBid, rc.push, FALSE))

recenter_and_drain(h, t, s, IsBid, A) ==
  drain_after(h, s, IsBid, recenter_to_anchor(h, t, IsBid, A))

\* set_impl: tape and spill side afterwards, the result, whether the spill
\* lost a level, whether the first set_qty said Promote, and whether the
\* anchor handed to TB_ASSUME / recenter_to_anchor's assert is out of range
set_pushed(r1, sp) ==
  [t |-> r1.t, s |-> sp.s, rc |-> r1.rc, lost |-> sp.lost,
   prom |-> FALSE, trap |-> FALSE]

\* a retry whose write is dropped: the tape is left as the drain left it
set_retried_dropped(rd, A, r2) ==
  [t |-> rd.t, s |-> rd.s, rc |-> r2.rc, lost |-> rd.lost,
   prom |-> TRUE, trap |-> A \notin Anchors]

set_retried(rd, A, r2) ==
  [t |-> r2.t, s |-> rd.s, rc |-> r2.rc, lost |-> rd.lost,
   prom |-> TRUE, trap |-> A \notin Anchors]

set_promoted(h, IsBid, px, q, A, rd) ==
  set_retried(rd, A, set_qty(h, rd.t, IsBid, px, q))

set_first(h, t, s, IsBid, px, q, r1) ==
  IF r1.rc # "Promote"
  THEN set_pushed(r1, push_all(s, IsBid, r1.push, FALSE))
  ELSE set_promoted(h, IsBid, px, q, promote_anchor(px),
                    recenter_and_drain(h, t, s, IsBid, promote_anchor(px)))

set_impl(h, t, s, IsBid, px, q) ==
  set_first(h, t, s, IsBid, px, q, set_qty(h, t, IsBid, px, q))

\* Tape::iterate_from_best and the spill's iterate_pending: the calls made
\* to the visitor, in order, the visitor answering false at its call number
\* stop (never for stop = 0).  tape_walk is the tape's loop from idx on.
RECURSIVE tape_walk(_, _, _, _)
tape_walk(t, IsBid, idx, acc) ==
  IF (IF IsBid THEN idx < 0 ELSE idx >= N) THEN acc
  ELSE tape_walk(t, IsBid,
                 IF IsBid THEN scan_prev_set(t.bits, idx - 1)
                          ELSE scan_next_set(t.bits, idx + 1),
                 Append(acc, [px |-> price_from_idx(t, idx), qty |-> t.qty[idx]]))

\* SideDynamic::iterate: from the best level on, up to the first level
\* worse than worst_px
RECURSIVE side_iterate(_, _, _, _)
side_iterate(a, IsBid, worst_px, acc) ==
  IF a = <<>> THEN acc
  ELSE LET lv == IF IsBid THEN a[Len(a)] ELSE a[1]
       IN IF (IF IsBid THEN lv.px < worst_px ELSE lv.px > worst_px) THEN acc
          ELSE side_iterate(IF IsBid THEN SubSeq(a, 1, Len(a) - 1) ELSE Tail(a),
                            IsBid, worst_px, Append(acc, lv))

iterate_from_best(t, s, IsBid, stop) ==
  LET T == tape_walk(t, IsBid, t.best_idx, <<>>)
      S == side_iterate(s.a, IsBid, IF IsBid THEN lowest_px ELSE highest_px, <<>>)
  IN IF stop # 0 /\ stop <= Len(T) THEN SubSeq(T, 1, stop)
     ELSE IF stop # 0 /\ stop <= Len(T) + Len(S) THEN SubSeq(T \o S, 1, stop)
     ELSE T \o S

\* a best_bid_px that looks at the spill only
best_bid_px_spill_only == side_best_px(spill.bid, TRUE)

best_bid_px ==
  LET tape_best == tape_best_px(bids, TRUE)
      spill_best == side_best_px(spill.bid, TRUE)
  IN IF tape_best > spill_best THEN tape_best ELSE spill_best

best_ask_px ==
  LET tape_best == tape_best_px(asks, FALSE)
      spill_best == side_best_px(spill.ask, FALSE)
  IN IF tape_best < spill_best THEN tape_best ELSE spill_best

best_bid_qty ==
  IF tape_best_px(bids, TRUE) >= side_best_px(spill.bid, TRUE)
  THEN tape_best_qty(bids, TRUE) ELSE side_best_qty(spill.bid, TRUE)

best_ask_qty ==
  IF tape_best_px(asks, FALSE) <= side_best_px(spill.ask, FALSE)
  THEN tape_best_qty(asks, FALSE) ELSE side_best_qty(spill.ask, FALSE)

crossed_on_tape ==
  LET b == tape_best_px(bids, TRUE)
      a == tape_best_px(asks, FALSE)
  IN b # lowest_px /\ a # highest_px /\ b >= a

crossed ==
  best_bid_px # lowest_px /\ best_ask_px # highest_px /\ best_bid_px >= best_ask_px

\* best_bid_px / best_ask_px and best_bid_qty / best_ask_qty of a book whose
\* side is made of tape t and spill side s
book_best_px(t, s, IsBid) ==
  LET tape_best == tape_best_px(t, IsBid)
      spill_best == side_best_px(s, IsBid)
  IN IF IsBid THEN (IF tape_best > spill_best THEN tape_best ELSE spill_best)
              ELSE (IF tape_best < spill_best THEN tape_best ELSE spill_best)

book_best_qty(t, s, IsBid) ==
  LET tape_best == tape_best_px(t, IsBid)
      spill_best == side_best_px(s, IsBid)
  IN IF (IF IsBid THEN tape_best >= spill_best ELSE tape_best <= spill_best)
     THEN tape_best_qty(t, IsBid) ELSE side_best_qty(s, IsBid)

\* ------------------------------------------------------------ reference model
\* RefBook of the differential fuzz harness: one ordered map per side, here
\* a function from price to quantity (0 = no entry)
RefEmpty == [p \in PriceT |-> 0]
RefNew == [bid |-> RefEmpty, ask |-> RefEmpty]

ref_set(r, IsBid, px, q) ==
  IF IsBid THEN [r EXCEPT !.bid[px] = q] ELSE [r EXCEPT !.ask[px] = q]

ref_erase_better(r, IsBid, px) ==
  IF IsBid THEN [r EXCEPT !.bid = [p \in PriceT |-> IF p >= px THEN 0 ELSE @[p]]]
  ELSE [r EXCEPT !.ask = [p \in PriceT |-> IF p <= px THEN 0 ELSE @[p]]]

ref_keys(m) == {p \in PriceT : m[p] # 0}
ref_best_bid_px(r) == IF ref_keys(r.bid) = {} THEN lowest_px ELSE MaxOf(ref_keys(r.bid))
ref_best_ask_px(r) == IF ref_keys(r.ask) = {} THEN highest_px ELSE MinOf(ref_keys(r.ask))
ref_best_bid_qty(r) == IF ref_keys(r.bid) = {} THEN 0 ELSE r.bid[MaxOf(ref_keys(r.bid))]
ref_best_ask_qty(r) == IF ref_keys(r.ask) = {} THEN 0 ELSE r.ask[MinOf(ref_keys(r.ask))]
ref_crossed(r) ==
  /\ ref_best_bid_px(r) # lowest_px
  /\ ref_best_ask_px(r) # highest_px
  /\ ref_best_bid_px(r) >= ref_best_ask_px(r)

\* ------------------------------------------------------------ observation
\* prices held by a tape (non-zero cells) and by a spill side
tape_prices(t) == {t.anchor_px + i : i \in {j \in 0 .. N - 1 : t.qty[j] # 0}}
side_prices(s) == {s.a[i].px : i \in 1 .. Len(s.a)}
side_qty(s, px) ==
  IF px \in side_prices(s)
  THEN s.a[CHOOSE i \in 1 .. Len(s.a) : s.a[i].px = px].qty ELSE 0
tape_qty(t, px) == IF idx_from_price(t, px) >= 0 THEN t.qty[idx_from_price(t, px)] ELSE 0

\* collect_separate of the harness: the tape's levels, then the spill's
\* (a price held by both reads as the spill's quantity)
collect(t, s) ==
  [p \in PriceT |-> IF side_qty(s, p) # 0 THEN side_qty(s, p) ELSE tape_qty(t, p)]

\* ------------------------------------------------------------ state machine
tape_of(b) == IF b THEN bids ELSE asks
side_of(b) == IF b THEN spill.bid ELSE spill.ask
held(b) == tape_prices(tape_of(b)) \cup side_prices(side_of(b))

\* TapeBook::set / erase_better / recenter_bid, recenter_ask applied to the
\* current book: what they make of the side's tape and spill side
book_set(b, px, q) == set_impl(hdr, tape_of(b), side_of(b), b, px, q)

book_erase_better(b, px) ==
  [t |-> tape_erase_better(hdr, tape_of(b), b, px),
   s |-> side_erase_better(side_of(b), b, px)]

book_recenter(b, new_anchor) ==
  recenter_and_drain(hdr, tape_of(b), side_of(b), b, new_anchor)

\* the model's bound: a set of a price the side does not hold is taken only
\* while the book holds fewer than MaxLevels levels
Admit(b, px, q) ==
  \/ q = 0
  \/ px \in held(b)
  \/ Cardinality(held(TRUE)) + Cardinality(held(FALSE)) < MaxLevels

\* Book(max_cap) with no pool: both tapes at anchor 0, empty spill sides.
\* lossy: the spill has evicted a level or dropped an update since the last
\* reset.  The pool, buffer and multi-book variables are not part of these
\* runs and stay as they start.
Init ==
  /\ hdr \in Headers
  /\ bids = TapeNew(TRUE)
  /\ asks = TapeNew(FALSE)
  /\ \E mc \in MaxCaps : spill = [bid |-> SideNew(mc), ask |-> SideNew(mc)]
  /\ halted = FALSE
  /\ lossy = FALSE
  /\ pool = PoolNew(MIN_BLOCK)
  /\ blocks = {}
  /\ freed = [c \in Classes |-> <<>>]
  /\ bufs = <<>>
  /\ mbp = <<>>

Reset(anchor) ==
  /\ ~halted
  /\ bids' = tape_reset(TRUE, anchor)
  /\ asks' = tape_reset(FALSE, anchor)
  /\ spill' = [bid |-> side_clear(spill.bid), ask |-> side_clear(spill.ask)]
  /\ lossy' = FALSE
  /\ UNCHANGED <<hdr, halted>>
  /\ UNCHANGED not_book

ResetAtMid(b, mid_px) ==
  /\ ~halted
  /\ bids' = IF b THEN tape_reset(TRUE, compute_anchor(mid_px, N \div 2)) ELSE bids
  /\ asks' = IF b THEN asks ELSE tape_reset(FALSE, compute_anchor(mid_px, N \div 2))
  /\ UNCHANGED <<hdr, spill, halted, lossy>>
  /\ UNCHANGED not_book

\* the anchor check of Tape::reset fails and the build stops there (assert);
\* ResetAtMid is the build that goes on
ResetAtMidAsserts(b, mid_px) ==
  /\ ~halted
  /\ compute_anchor(mid_px, N \div 2) \notin Anchors
  /\ halted' = TRUE
  /\ UNCHANGED <<hdr, bids, asks, spill, lossy>>
  /\ UNCHANGED not_book

Set(b, px, q) ==
  /\ ~halted
  /\ Admit(b, px, q)
  /\ \E r \in {book_set(b, px, q)} :
        /\ bids' = IF b THEN r.t ELSE bids
        /\ asks' = IF b THEN asks ELSE r.t
        /\ spill' = IF b THEN [spill EXCEPT !.bid = r.s] ELSE [spill EXCEPT !.ask = r.s]
        /\ lossy' = (lossy \/ r.lost)
  /\ UNCHANGED <<hdr, halted>>
  /\ UNCHANGED not_book

\* the anchor check of set_impl / recenter_to_anchor fails and the build
\* stops there (assert); Set is the build that goes on
SetAsserts(b, px, q) ==
  /\ ~halted
  /\ promote_anchor(px) \notin Anchors
  /\ Admit(b, px, q)
  /\ book_set(b, px, q).trap
  /\ halted' = TRUE
  /\ UNCHANGED <<hdr, bids, asks, spill, lossy>>
  /\ UNCHANGED not_book

EraseBetter(b, px) ==
  /\ ~halted
  /\ \E r \in {book_erase_better(b, px)} :
        /\ bids' = IF b THEN r.t ELSE bids
        /\ asks' = IF b THEN asks ELSE r.t
        /\ spill' = IF b THEN [spill EXCEPT !.bid = r.s] ELSE [spill EXCEPT !.ask = r.s]
  /\ UNCHANGED <<hdr, halted, lossy>>
  /\ UNCHANGED not_book

RecenterBid(new_anchor) ==
  /\ ~halted
  /\ \E r \in {book_recenter(TRUE, new_anchor)} :
        /\ bids' = r.t
        /\ spill' = [spill EXCEPT !.bid = r.s]
        /\ lossy' = (lossy \/ r.lost)
  /\ UNCHANGED <<hdr, asks, halted>>
  /\ UNCHANGED not_book

RecenterAsk(new_anchor) ==
  /\ ~halted
  /\ \E r \in {book_recenter(FALSE, new_anchor)} :
        /\ asks' = r.t
        /\ spill' = [spill EXCEPT !.ask = r.s]
        /\ lossy' = (lossy \/ r.lost)
  /\ UNCHANGED <<hdr, bids, halted>>
  /\ UNCHANGED not_book

Next ==
  \/ \E a \in AnchorsIn : Reset(a)
  \/ \E b \in BOOLEAN, p \in MidIn : ResetAtMid(b, p)
  \/ \E b \in BOOLEAN, p \in MidIn : ResetAtMidAsserts(b, p)
  \/ \E b \in BOOLEAN, p \in PxIn, q \in QtyT : Set(b, p, q)
  \/ \E b \in BOOLEAN, p \in PxIn, q \in QtyT : SetAsserts(b, p, q)
  \/ \E b \in BOOLEAN, p \in PxIn : EraseBetter(b, p)
  \/ \E a \in AnchorsIn : RecenterBid(a)
  \/ \E a \in AnchorsIn : RecenterAsk(a)

Spec == Init /\ [][Next]_vars

\* the runs of the differential harness: reset, set, erase_better and
\* recenter only
NextRef ==
  \/ \E a \in AnchorsIn : Reset(a)
  \/ \E b \in BOOLEAN, p \in PxIn, q \in QtyT : Set(b, p, q)
  \/ \E b \in BOOLEAN, p \in PxIn, q \in QtyT : SetAsserts(b, p, q)
  \/ \E b \in BOOLEAN, p \in PxIn : EraseBetter(b, p)
  \/ \E a \in AnchorsIn : RecenterBid(a)
  \/ \E a \in AnchorsIn : RecenterAsk(a)

SpecRef == Init /\ [][NextRef]_vars


\* ------------------------------------------------------------ pool runs
\* a caller that uses the pool directly, as the pool's unit tests do: it
\* holds the blocks it was given with the capacity it asked for, writes
\* levels into them and gives them back with that capacity
InitPool ==
  /\ hdr = "single_include"
  /\ bids = TapeNew(TRUE)
  /\ asks = TapeNew(FALSE)
  /\ spill = [bid |-> SideNew(1), ask |-> SideNew(1)]
  /\ halted = FALSE
  /\ lossy = FALSE
  /\ pool \in {PoolNew(c) : c \in ArenaCaps}
  /\ blocks = {}
  /\ freed = [c \in Classes |-> <<>>]
  /\ bufs = <<>>
  /\ mbp = <<>>

\* freed after allocate has returned ptr: the block is no longer free
freed_without(cap, ptr) ==
  [freed EXCEPT ![size_class(cap)] = SelectSeq(@, LAMBDA o : o # ptr)]

PoolAllocate(cap) ==
  /\ \E r \in {allocate(pool, cap)} :
        /\ r.ptr = null => pool.alloc_fail_count < MaxFails
        /\ pool' = r.pool
        /\ blocks' = IF r.ptr = null THEN blocks
                   ELSE blocks \cup {[off |-> r.ptr, cap |-> cap]}
        /\ freed' = freed_without(cap, r.ptr)
  /\ UNCHANGED <<book_vars, bufs, mbp>>

\* the owner writes its levels: level i of the block becomes 10 * v + i
PoolStore(b, v) ==
  /\ b \in blocks
  /\ pool' = [pool EXCEPT !.mem = [o \in DOMAIN @ |->
                                     IF o >= b.off /\ o < b.off + b.cap
                                     THEN 10 * v + (o - b.off) ELSE @[o]]]
  /\ UNCHANGED <<book_vars, blocks, freed, bufs, mbp>>

PoolDeallocate(ptr, cap) ==
  /\ ptr = null \/ [off |-> ptr, cap |-> cap] \in blocks
  /\ pool' = deallocate(pool, ptr, cap)
  /\ blocks' = blocks \ {[off |-> ptr, cap |-> cap]}
  /\ freed' = IF ptr = null THEN freed
              ELSE [freed EXCEPT ![size_class(cap)] = Append(@, ptr)]
  /\ UNCHANGED <<book_vars, bufs, mbp>>

PoolReallocate(old, old_cap, new_cap, used) ==
  /\ \/ old = null /\ old_cap = 0
     \/ [off |-> old, cap |-> old_cap] \in blocks
  /\ new_cap > old_cap
  /\ used <= old_cap
  /\ \E r \in {reallocate(pool, old, old_cap, new_cap, used)} :
        /\ r.ptr = null => pool.alloc_fail_count < MaxFails
        /\ pool' = r.pool
        /\ blocks' = IF r.ptr = null THEN blocks
                   ELSE (blocks \ {[off |-> old, cap |-> old_cap]})
                          \cup {[off |-> r.ptr, cap |-> new_cap]}
        /\ freed' = IF r.ptr = null THEN freed
                    ELSE IF old = null THEN freed_without(new_cap, r.ptr)
                    ELSE [freed_without(new_cap, r.ptr)
                            EXCEPT ![size_class(old_cap)] = Append(@, old)]
  /\ UNCHANGED <<book_vars, bufs, mbp>>

NextPool ==
  \/ \E cap \in CapsIn : PoolAllocate(cap)
  \/ \E b \in [off : Offsets, cap : CapsIn] : PoolStore(b, 1)
  \/ \E ptr \in {null} \cup Offsets, cap \in CapsIn : PoolDeallocate(ptr, cap)
  \/ \E old \in {null} \cup Offsets, old_cap \in {0} \cup CapsIn,
        new_cap \in CapsIn, used \in 0 .. 2 :
       PoolReallocate(old, old_cap, new_cap, used)

SpecPool == InitPool /\ [][NextPool]_vars

\* the same caller with capacities above the largest class (the requests of
\* a spill side whose max_cap is more than class_size(NUM_CLASSES - 1)).
\* The levels it writes are small numbers (level i of a block is i), which
\* read as offsets inside the arena.
BigArenaCap == 6
BigCapsIn == {1, 8, 16}
BigOffsets == 0 .. BigArenaCap - 1

InitPoolBig ==
  /\ hdr = "single_include"
  /\ bids = TapeNew(TRUE)
  /\ asks = TapeNew(FALSE)
  /\ spill = [bid |-> SideNew(1), ask |-> SideNew(1)]
  /\ halted = FALSE
  /\ lossy = FALSE
  /\ pool = PoolNew(BigArenaCap)
  /\ blocks = {}
  /\ freed = [c \in Classes |-> <<>>]
  /\ bufs = <<>>
  /\ mbp = <<>>

NextPoolBig ==
  \/ \E cap \in BigCapsIn : PoolAllocate(cap)
  \/ \E b \in [off : BigOffsets, cap : BigCapsIn] : PoolStore(b, 0)
  \/ \E ptr \in {null} \cup BigOffsets, cap \in BigCapsIn : PoolDeallocate(ptr, cap)
  \/ \E old \in {null} \cup BigOffsets, old_cap \in {0} \cup BigCapsIn,
        new_cap \in BigCapsIn, used \in {0, 6} :
       PoolReallocate(old, old_cap, new_cap, used)

SpecPoolBig == InitPoolBig /\ [][NextPoolBig]_vars

\* ------------------------------------------------------------ buffer runs
\* pool-backed books in NBufs places of storage, sharing one pool: they are
\* constructed, written to, moved into one another and destroyed.
\* halted: a push has gone through the null block pointer and the run has
\* stopped there.
Slots == 1 .. NBufs
BufArenaCaps == {6}
BufMaxCaps == {4}
BufPxIn == {-4, -3, -2, 1, 5}

InitBuf ==
  /\ hdr = "single_include"
  /\ bids = TapeNew(TRUE)
  /\ asks = TapeNew(FALSE)
  /\ spill = [bid |-> SideNew(1), ask |-> SideNew(1)]
  /\ halted = FALSE
  /\ lossy = FALSE
  /\ pool \in {PoolNew(c) : c \in BufArenaCaps}
  /\ blocks = {}
  /\ freed = [c \in Classes |-> <<>>]
  /\ bufs = [i \in Slots |-> NoBook]
  /\ mbp = <<>>

buf_frame == <<hdr, bids, asks, spill, lossy, blocks, freed, mbp>>

\* Book(max_cap, &pool)
BufConstruct(i, mc) ==
  /\ ~halted
  /\ ~bufs[i].live
  /\ bufs' = [bufs EXCEPT ![i] = BookNew(mc, TRUE)]
  /\ UNCHANGED <<pool, halted, buf_frame>>

\* set on the book of slot i; a push that reads through the null block
\* pointer compares against whatever it finds and returns
BufSet(i, b, px, q) ==
  /\ ~halted
  /\ bufs[i].live
  /\ set_qty(hdr, buf_tape(bufs[i], b), b, px, q).rc # "Promote"
  /\ \E r \in {buf_set(hdr, pool, bufs[i], b, px, q)} :
        /\ r.failed => pool.alloc_fail_count < MaxFails
        /\ pool' = r.pool
        /\ bufs' = [bufs EXCEPT ![i] = r.book]
  /\ UNCHANGED <<halted, buf_frame>>

\* the same push when the read or the write through the null block pointer
\* faults
BufSetFaults(i, b, px, q) ==
  /\ ~halted
  /\ bufs[i].live
  /\ set_qty(hdr, buf_tape(bufs[i], b), b, px, q).rc # "Promote"
  /\ \E r \in {buf_set(hdr, pool, bufs[i], b, px, q)} :
        /\ r.trap
        /\ r.failed => pool.alloc_fail_count < MaxFails
        /\ pool' = r.pool
  /\ halted' = TRUE
  /\ UNCHANGED <<bufs, buf_frame>>

BufMoveConstruct(i, j) ==
  /\ ~halted
  /\ i # j /\ ~bufs[i].live /\ bufs[j].live
  /\ bufs' = [bufs EXCEPT ![i] = move_construct(bufs[j]).dst,
                          ![j] = move_construct(bufs[j]).src]
  /\ UNCHANGED <<pool, halted, buf_frame>>

BufMoveAssign(i, j) ==
  /\ ~halted
  /\ bufs[i].live /\ bufs[j].live
  /\ IF i = j THEN UNCHANGED <<pool, bufs>>
     ELSE \E r \in {move_assign(pool, bufs[i], bufs[j])} :
            /\ pool' = r.pool
            /\ bufs' = [bufs EXCEPT ![i] = r.dst, ![j] = r.src]
  /\ UNCHANGED <<halted, buf_frame>>

BufDestroy(i) ==
  /\ ~halted
  /\ bufs[i].live
  /\ pool' = release_both(pool, bufs[i])
  /\ bufs' = [bufs EXCEPT ![i] = NoBook]
  /\ UNCHANGED <<halted, buf_frame>>

NextBuf ==
  \/ \E i \in Slots, mc \in BufMaxCaps : BufConstruct(i, mc)
  \/ \E i \in Slots, b \in BOOLEAN, px \in BufPxIn : BufSet(i, b, px, 1)
  \/ \E i \in Slots, b \in BOOLEAN, px \in BufPxIn : BufSetFaults(i, b, px, 1)
  \/ \E i \in Slots, j \in Slots : BufMoveConstruct(i, j)
  \/ \E i \in Slots, j \in Slots : BufMoveAssign(i, j)
  \/ \E i \in Slots : BufDestroy(i)

SpecBuf == InitBuf /\ [][NextBuf]_vars

\* the same books with a max_cap above the largest class: a side's third
\* growth asks the pool for more than class_size(NUM_CLASSES - 1) levels.
\* The book of slot 1 is given bids, the book of slot 2 a bid and an ask
\* beyond the window; the books are constructed, written to and destroyed.
BigBufArenaCap == 12
BigBufMaxCap == 8
BigBufInputs ==
  ({1} \X {TRUE} \X {-5, -4, -3, -2, -1, 1})
    \cup ({2} \X {TRUE} \X {-1, 1}) \cup ({2} \X {FALSE} \X {1, 5})

InitBufBig ==
  /\ hdr = "single_include"
  /\ bids = TapeNew(TRUE)
  /\ asks = TapeNew(FALSE)
  /\ spill = [bid |-> SideNew(1), ask |-> SideNew(1)]
  /\ halted = FALSE
  /\ lossy = FALSE
  /\ pool = PoolNew(BigBufArenaCap)
  /\ blocks = {}
  /\ freed = [c \in Classes |-> <<>>]
  /\ bufs = [i \in Slots |-> NoBook]
  /\ mbp = <<>>

NextBufBig ==
  \/ \E i \in Slots : BufConstruct(i, BigBufMaxCap)
  \/ \E x \in BigBufInputs : BufSet(x[1], x[2], x[3], 1)
  \/ \E i \in Slots : BufDestroy(i)

SpecBufBig == InitBufBig /\ [][NextBufBig]_vars

\* ------------------------------------------------------------ multi-book runs
\* a MultiBookPool3 with its own pool: books are allocated in the tiers and
\* written to through their handles, and the pool is destroyed member by
\* member.  The arena has room for a block for every side that can spill
\* here, so the allocator does not return null in these runs.
MaxBooks == 3
MbArenaCap == 6
MbDefaultMaxCap == 4
MbMaxCapsIn == {0, 4}
MbAnchorsIn == {0, 4}
MbPxIn == {1, 5}

books_in(m) == Len(m.high_.items) + Len(m.medium_.items) + Len(m.low_.items)

\* the handles alloc has returned
handles(m) ==
  {h \in [tier : Tiers, idx : 0 .. MaxBooks] :
     h.idx < Len(vec_of(m, h.tier).items)}

InitMulti ==
  /\ hdr = "single_include"
  /\ bids = TapeNew(TRUE)
  /\ asks = TapeNew(FALSE)
  /\ spill = [bid |-> SideNew(1), ask |-> SideNew(1)]
  /\ halted = FALSE
  /\ lossy = FALSE
  /\ pool = PoolNew(MbArenaCap)
  /\ blocks = {}
  /\ freed = [c \in Classes |-> <<>>]
  /\ bufs = <<>>
  /\ mbp = MultiNew(MbDefaultMaxCap)

mb_frame == <<book_vars, blocks, freed, bufs>>

MbAlloc(tier, anchor_px, max_cap) ==
  /\ mbp.destroyed = 0
  /\ books_in(mbp) < MaxBooks
  /\ \E r \in {mb_alloc(mbp, pool, tier, anchor_px, max_cap)} :
        /\ pool' = r.pool
        /\ mbp' = r.mbp
  /\ UNCHANGED mb_frame

\* with_book(h, fn) with fn a set that set_qty does not answer with Promote
MbSet(h, b, px, q) ==
  /\ mbp.destroyed = 0
  /\ h \in handles(mbp)
  /\ set_qty(hdr, buf_tape(with_book(mbp, h), b), b, px, q).rc # "Promote"
  /\ \E r \in {buf_set(hdr, pool, with_book(mbp, h), b, px, q)} :
        /\ pool' = r.pool
        /\ mbp' = with_vec(mbp, h.tier,
                           [vec_of(mbp, h.tier) EXCEPT !.items[h.idx + 1] = r.book])
  /\ UNCHANGED mb_frame

\* one member of the MultiBookPool3 is destroyed: a vector destroys its
\* books, each releasing its blocks to the pool; the unique_ptr deletes the
\* pool, which frees the arena
MbDestroyMember(member) ==
  /\ mbp.destroyed < Len(destroy_order)
  /\ member = destroy_order[mbp.destroyed + 1]
  /\ IF member = "pool_"
     THEN /\ pool' = [pool EXCEPT !.alive = FALSE]
          /\ mbp' = [mbp EXCEPT !.destroyed = @ + 1]
     ELSE /\ pool' = IF pool.alive
                     THEN destroy_all(pool, vec_of(mbp, member).items)
                     ELSE pool
          /\ mbp' = [with_vec(mbp, member, VecNew)
                       EXCEPT !.destroyed = @ + 1,
                              !.late = @ \/ (~pool.alive
                                             /\ vec_of(mbp, member).items # <<>>)]
  /\ UNCHANGED mb_frame

NextMulti ==
  \/ \E tier \in Tiers, anchor_px \in MbAnchorsIn, max_cap \in MbMaxCapsIn :
       MbAlloc(tier, anchor_px, max_cap)
  \/ \E h \in [tier : Tiers, idx : 0 .. MaxBooks - 1], b \in BOOLEAN,
        px \in MbPxIn :
       MbSet(h, b, px, 1)
  \/ \E member \in Tiers \cup {"pool_"} : MbDestroyMember(member)

SpecMulti == InitMulti /\ [][NextMulti]_vars

\* ============================================================ spill runs
\* A DynSpillBuffer on its own (no pool, malloc succeeds), driven through
\* its interface: push, drain, erase_better, clear and release.  The two
\* sides are the variable spill; lossy records an eviction or a dropped
\* update.  The other variables are not part of these runs.
SideMaxCaps == {1, 2, 4}
SidePxIn == {-8, -1, 0, 2, 7}
MaxSideLevels == 4

\* release(nullptr): free(a); a = nullptr; n = 0; cap = 0
side_release(s) == [s EXCEPT !.a = <<>>, !.cap = 0]

with_side(b, s) == IF b THEN [spill EXCEPT !.bid = s] ELSE [spill EXCEPT !.ask = s]

side_frame == <<hdr, bids, asks, halted, pool, blocks, freed, bufs, mbp>>

InitSide ==
  /\ hdr = "single_include"
  /\ bids = TapeNew(TRUE)
  /\ asks = TapeNew(FALSE)
  /\ \E mc \in SideMaxCaps : spill = [bid |-> SideNew(mc), ask |-> SideNew(mc)]
  /\ halted = FALSE
  /\ lossy = FALSE
  /\ pool = PoolNew(MIN_BLOCK)
  /\ blocks = {}
  /\ freed = [c \in Classes |-> <<>>]
  /\ bufs = <<>>
  /\ mbp = <<>>

\* push<IsBid>(px, q); a price the side does not hold is taken only while
\* the buffer holds fewer than MaxSideLevels levels or the side is full at
\* max_cap (the push then adds no level)
SidePush(b, px, q) ==
  /\ \/ q = 0
     \/ px \in side_prices(side_of(b))
     \/ Len(spill.bid.a) + Len(spill.ask.a) < MaxSideLevels
     \/ Len(side_of(b).a) = side_of(b).max_cap
  /\ \E r \in {add_point(side_of(b), b, px, q)} :
        /\ spill' = with_side(b, r.s)
        /\ lossy' = (lossy \/ r.lost)
  /\ UNCHANGED side_frame

\* drain<IsBid>(lo_px, hi_px, fn)
SideDrain(b, lo_px, hi_px) ==
  /\ spill' = with_side(b, drain_range(side_of(b), lo_px, hi_px).s)
  /\ UNCHANGED lossy
  /\ UNCHANGED side_frame

\* erase_better<IsBid>(threshold_px)
SideEraseBetter(b, th) ==
  /\ spill' = with_side(b, side_erase_better(side_of(b), b, th))
  /\ UNCHANGED lossy
  /\ UNCHANGED side_frame

\* clear()
SideClear ==
  /\ spill' = [bid |-> side_clear(spill.bid), ask |-> side_clear(spill.ask)]
  /\ lossy' = FALSE
  /\ UNCHANGED side_frame

\* release()
SideRelease ==
  /\ spill' = [bid |-> side_release(spill.bid), ask |-> side_release(spill.ask)]
  /\ lossy' = FALSE
  /\ UNCHANGED side_frame

NextSide ==
  \/ \E b \in BOOLEAN, px \in SidePxIn, q \in QtyT : SidePush(b, px, q)
  \/ \E b \in BOOLEAN, lo \in SidePxIn, hi \in SidePxIn : SideDrain(b, lo, hi)
  \/ \E b \in BOOLEAN, th \in SidePxIn : SideEraseBetter(b, th)
  \/ SideClear
  \/ SideRelease

SpecSide == InitSide /\ [][NextSide]_vars

\* ============================================================ properties
\* the per-side price -> quantity map of the book, as the harness collects it
book_map == [bid |-> collect(bids, spill.bid), ask |-> collect(asks, spill.ask)]

side_map(r, b) == IF b THEN r.bid ELSE r.ask

\* bit i of a tape's occupancy bitmap
bit_set(t, i) == (i % WORD_BITS) \in t.bits[i \div WORD_BITS]

occupied(t) == {i \in 0 .. N - 1 : t.qty[i] # 0}

window(t) == t.anchor_px .. t.anchor_px + N - 1

\* ---- C1 : refinement of the ordered-map reference
\* C1: in a run of reset / set / erase_better / recenter in which the spill
\* has lost no level, the best prices, best quantities and crossed() are
\* those of the reference on the book's price -> quantity map, and every
\* further set, erase_better and recenter that loses no level changes the
\* map the way the reference operation does (recenter: not at all).
C1_Observables ==
  /\ best_bid_px = ref_best_bid_px(book_map)
  /\ best_ask_px = ref_best_ask_px(book_map)
  /\ best_bid_qty = ref_best_bid_qty(book_map)
  /\ best_ask_qty = ref_best_ask_qty(book_map)
  /\ crossed = ref_crossed(book_map)

C1_Steps ==
  \A b \in BOOLEAN :
    /\ \A p \in PxIn, q \in QtyT :
         LET r == book_set(b, p, q)
         IN ~r.lost => collect(r.t, r.s) = side_map(ref_set(book_map, b, p, q), b)
    /\ \A p \in PxIn :
         LET r == book_erase_better(b, p)
         IN collect(r.t, r.s) = side_map(ref_erase_better(book_map, b, p), b)
    /\ \A a \in AnchorsIn :
         LET r == book_recenter(b, a)
         IN ~r.lost => collect(r.t, r.s) = side_map(book_map, b)

C1_MatchesReference == ~lossy => (C1_Observables /\ C1_Steps)

\* ---- C2 : bitmap / quantity agreement
\* C2: in every reachable state, runs with evictions included, bit i of each
\* tape's bitmap is set exactly when qty[i] is non-zero, for every cell i.
C2_BitmapMatchesQty ==
  \A b \in BOOLEAN : \A i \in 0 .. N - 1 :
    bit_set(tape_of(b), i) <=> (tape_of(b).qty[i] # 0)

\* a run in which the spill has evicted: a side with an occupied tape and a
\* full spill, and a tape occupied in every bitmap word
C2_Witness ==
  /\ lossy
  /\ \E b \in BOOLEAN :
       /\ occupied(tape_of(b)) # {}
       /\ Len(side_of(b).a) = side_of(b).max_cap
  /\ \E b \in BOOLEAN : \A w \in 0 .. WORDS - 1 : tape_of(b).bits[w] # {}

\* ---- C3 : cached best index
\* C3: in every reachable state the bid tape's best_idx is its highest
\* occupied index (-1 when empty) and the ask tape's best_idx is its lowest
\* occupied index (N when empty).
C3_BestIsExtreme ==
  /\ bids.best_idx = MaxOf({-1} \cup occupied(bids))
  /\ asks.best_idx = MinOf({N} \cup occupied(asks))

\* ---- C4 : set never returns Promote
\* C4: from every reachable state, for every side, input price and quantity,
\* Book.set returns Insert, Update, Erase or Spill, and returns Insert or
\* Update when its first set_qty said Promote.
C4_NeverPromote ==
  \A b \in BOOLEAN, p \in PxIn, q \in QtyT :
    LET r == book_set(b, p, q)
    IN /\ r.rc \in {"Insert", "Update", "Erase", "Spill"}
       /\ r.prom => r.rc \in {"Insert", "Update"}

\* a state from which a set promotes and the retry finds the price already
\* drained into the tape (Update), and another set promotes into an empty
\* cell (Insert)
C4_Witness ==
  /\ \E b \in BOOLEAN, p \in PxIn, q \in 1 .. MaxQty :
       book_set(b, p, q).prom /\ book_set(b, p, q).rc = "Update"
          /\ promote_anchor(p) \in Anchors
  /\ \E b \in BOOLEAN, p \in PxIn, q \in 1 .. MaxQty :
       book_set(b, p, q).prom /\ book_set(b, p, q).rc = "Insert"

\* ---- C5 : a set level is stored once
\* C5: from every reachable state, a set(side, p, q) with q > 0 that loses
\* no level leaves p with quantity q in exactly one of the side's tape and
\* the side's spill.
C5_StoredOnce ==
  \A b \in BOOLEAN, p \in PxIn, q \in 1 .. MaxQty :
    LET r == book_set(b, p, q)
        in_tape == tape_qty(r.t, p) # 0
        in_spill == p \in side_prices(r.s)
    IN ~r.lost =>
         /\ in_tape # in_spill
         /\ in_tape => tape_qty(r.t, p) = q
         /\ in_spill => /\ side_qty(r.s, p) = q
                        /\ Cardinality({i \in 1 .. Len(r.s.a) : r.s.a[i].px = p}) = 1

\* ---- C6 : frame of set
\* C6: from every reachable state, a set(side, p, q) that loses no level
\* leaves every other price of the side with its quantity (the opposite
\* side and its anchor are not handed to set_impl at all).
C6_SetFrame ==
  \A b \in BOOLEAN, p \in PxIn, q \in QtyT :
    LET r == book_set(b, p, q)
    IN ~r.lost =>
         \A p2 \in PriceT \ {p} :
           collect(r.t, r.s)[p2] = side_map(book_map, b)[p2]

\* ---- C7 : set to zero removes the price
\* C7: from every reachable state, set(side, p, 0) leaves p absent from the
\* side's tape and from the side's spill.
C7_ZeroRemoves ==
  \A b \in BOOLEAN, p \in PxIn :
    LET r == book_set(b, p, 0)
    IN tape_qty(r.t, p) = 0 /\ p \notin side_prices(r.s)

\* ---- C8 : in-window prices live in the tape
\* C8: in every reachable state no spill side holds a price inside its
\* tape's window [anchor, anchor + N - 1].
C8_SpillOutsideWindow ==
  \A b \in BOOLEAN : side_prices(side_of(b)) \cap window(tape_of(b)) = {}

\* ---- C9 : anchor range
\* C9: in every reachable state both anchors lie in
\* [min_price + N - 1, max_price - N + 1].
C9_AnchorInRange == bids.anchor_px \in Anchors /\ asks.anchor_px \in Anchors

\* ---- C10 : erase_better
\* C10: from every reachable state, erase_better<Bid>(t) leaves exactly the
\* bid levels below t, erase_better<Ask>(t) exactly the ask levels above t,
\* each with its quantity, for every t.
C10_EraseBetterExact ==
  \A b \in BOOLEAN, th \in PriceT :
    LET r == book_erase_better(b, th)
    IN collect(r.t, r.s) =
         [p \in PriceT |-> IF (IF b THEN p >= th ELSE p <= th)
                           THEN 0 ELSE side_map(book_map, b)[p]]

\* ---- C11 : frame of recenter
\* C11: from every reachable state, recenter_bid(A) / recenter_ask(A) with a
\* valid anchor A that loses no level to the spill's capacity sets the
\* side's anchor to A and leaves the side's price -> quantity map, best
\* price and best quantity as they were (the other side is not handed to
\* the operation at all).
C11_RecenterFrame ==
  \A b \in BOOLEAN, A \in AnchorsIn :
    LET r == book_recenter(b, A)
    IN ~r.lost =>
         /\ r.t.anchor_px = A
         /\ collect(r.t, r.s) = side_map(book_map, b)
         /\ book_best_px(r.t, r.s, b) = book_best_px(tape_of(b), side_of(b), b)
         /\ book_best_qty(r.t, r.s, b) = book_best_qty(tape_of(b), side_of(b), b)

\* ---- C12 : best quantity
\* C12: in every reachable state a side that holds a level has a non-zero
\* best quantity, its best price is a price it holds, and the best quantity
\* is the quantity at that price of the tape when the tape's best price is
\* at least as good as the spill's, otherwise of the spill; for levels at
\* any price, the minimum and maximum included.
C12_BestQtyOfBestLevel ==
  /\ held(TRUE) # {} =>
       /\ best_bid_qty # 0
       /\ best_bid_px \in held(TRUE)
       /\ best_bid_qty =
            IF tape_best_px(bids, TRUE) >= side_best_px(spill.bid, TRUE)
            THEN tape_qty(bids, best_bid_px) ELSE side_qty(spill.bid, best_bid_px)
  /\ held(FALSE) # {} =>
       /\ best_ask_qty # 0
       /\ best_ask_px \in held(FALSE)
       /\ best_ask_qty =
            IF tape_best_px(asks, FALSE) <= side_best_px(spill.ask, FALSE)
            THEN tape_qty(asks, best_ask_px) ELSE side_qty(spill.ask, best_ask_px)

\* ---- C13 : cross detection
\* C13: in every reachable state crossed() is true exactly when both sides
\* hold a level (tape or spill) and the highest bid price is >= the lowest
\* ask price, and crossed_on_tape() is true exactly when both tapes hold a
\* level and the bid tape's highest price is >= the ask tape's lowest.
C13_CrossedExact ==
  /\ crossed <=> /\ held(TRUE) # {}
                 /\ held(FALSE) # {}
                 /\ MaxOf(held(TRUE)) >= MinOf(held(FALSE))
  /\ crossed_on_tape <=> /\ tape_prices(bids) # {}
                         /\ tape_prices(asks) # {}
                         /\ MaxOf(tape_prices(bids)) >= MinOf(tape_prices(asks))

\* ---- C14 : crossed_on_tape implies crossed
\* C14: in every reachable state, crossed_on_tape() implies crossed().
C14_TapeCrossImpliesCross == crossed_on_tape => crossed

\* the tapes are crossed while a spill side holds a level
C14_Witness ==
  /\ crossed_on_tape
  /\ Len(spill.bid.a) + Len(spill.ask.a) > 0

\* ---- C15 : zero write to an empty in-window cell
\* C15: from every reachable state, set(side, p, 0) at an in-window price
\* whose cell is zero returns Erase and leaves the side's tape and spill as
\* they were.
C15_ZeroOnEmptyIsErase ==
  \A b \in BOOLEAN, p \in PxIn :
    LET t == tape_of(b)
        i == idx_from_price(t, p)
        r == book_set(b, p, 0)
    IN (i >= 0 /\ t.qty[i] = 0) =>
         /\ r.rc = "Erase"
         /\ r.t = t
         /\ r.s = side_of(b)

\* ---- C16 : set_qty outside the window
\* C16: from every reachable state and for every price p outside a tape's
\* window: set_qty(p, 0) returns Spill, hands (p, 0) to the sink and leaves
\* the tape alone; set_qty(p, q > 0) returns Promote exactly when the tape
\* holds no level or p is strictly better than the best price it holds, and
\* otherwise returns Spill, hands (p, q) to the sink and leaves the tape
\* alone; and Book.set of such a worse price returns Spill and leaves the
\* side's best price as it was.
C16_OutOfWindowClassified ==
  \A b \in BOOLEAN, p \in PriceT :
    LET t == tape_of(b)
        better == \/ tape_prices(t) = {}
                  \/ (IF b THEN p > MaxOf(tape_prices(t))
                           ELSE p < MinOf(tape_prices(t)))
    IN idx_from_price(t, p) < 0 =>
         /\ set_qty(hdr, t, b, p, 0) =
              [t |-> t, rc |-> "Spill", push |-> <<[px |-> p, qty |-> 0]>>]
         /\ \A q \in 1 .. MaxQty :
              LET r == set_qty(hdr, t, b, p, q)
              IN /\ (r.rc = "Promote") <=> better
                 /\ ~better => r = [t |-> t, rc |-> "Spill",
                                    push |-> <<[px |-> p, qty |-> q]>>]
                 /\ (~better /\ p \in PxIn) =>
                      /\ book_set(b, p, q).rc = "Spill"
                      /\ book_best_px(book_set(b, p, q).t, book_set(b, p, q).s, b)
                           = book_best_px(t, side_of(b), b)

\* ---- C17 : last write wins
\* the observables of one side after two runs of set; equal tapes and spill
\* sides have equal observables, so those are compared first
C17_SameObservables(b, r12, r2) ==
  \/ r12.t = r2.t /\ r12.s = r2.s
  \/ /\ collect(r12.t, r12.s) = collect(r2.t, r2.s)
     /\ book_best_px(r12.t, r12.s, b) = book_best_px(r2.t, r2.s, b)
     /\ book_best_qty(r12.t, r12.s, b) = book_best_qty(r2.t, r2.s, b)
     /\ r12.t.anchor_px = r2.t.anchor_px

\* C17: from every reachable state, set(side, p, q1) followed by
\* set(side, p, q2) with q1, q2 > 0, no level lost to the spill's capacity,
\* leaves the side with the price -> quantity map, best price, best
\* quantity and anchor that set(side, p, q2) alone leaves (the other side is
\* not handed to set at all); q1 = q2 is idempotence.
C17_LastWriteWins ==
  \A b \in BOOLEAN, p \in PxIn :
    \A r \in {[q \in 1 .. MaxQty |-> book_set(b, p, q)]} :
      \A q1 \in 1 .. MaxQty, q2 \in 1 .. MaxQty :
        \A r12 \in {set_impl(hdr, r[q1].t, r[q1].s, b, p, q2)} :
          (~r[q1].lost /\ ~r12.lost /\ ~r[q2].lost) =>
            C17_SameObservables(b, r12, r[q2])

\* a state from which a first set promotes and one from which it spills,
\* each followed by a second set of another quantity, nothing lost
C17_Witness ==
  /\ \E b \in BOOLEAN, p \in PxIn :
       LET r1 == book_set(b, p, 1)
           r12 == set_impl(hdr, r1.t, r1.s, b, p, 2)
       IN r1.prom /\ ~r1.trap /\ ~r1.lost /\ r12.rc = "Update" /\ tape_qty(r12.t, p) = 2
  /\ \E b \in BOOLEAN, p \in PxIn :
       LET r1 == book_set(b, p, 1)
           r12 == set_impl(hdr, r1.t, r1.s, b, p, 2)
       IN r1.rc = "Spill" /\ ~r1.lost /\ r12.rc = "Spill" /\ side_qty(r12.s, p) = 2

\* ---- C18 : reset
\* the book after reset(anchor), as its queries show it
C18_ResetPost(anchor) ==
  /\ bids.anchor_px = anchor /\ asks.anchor_px = anchor
  /\ occupied(bids) = {} /\ occupied(asks) = {}
  /\ \A w \in 0 .. WORDS - 1 : bids.bits[w] = {} /\ asks.bits[w] = {}
  /\ spill.bid.a = <<>> /\ spill.ask.a = <<>>
  /\ best_bid_px = lowest_px /\ best_ask_px = highest_px
  /\ best_bid_qty = 0 /\ best_ask_qty = 0
  /\ ~crossed /\ ~crossed_on_tape
  /\ book_map = RefNew

\* C18: every reset(anchor) step, from any state, leaves both tapes anchored
\* at anchor and empty and both spill sides empty: the best bid price is the
\* no-bid sentinel, the best ask price the no-ask sentinel, both best
\* quantities are 0, crossed() and crossed_on_tape() are false and the
\* book's price -> quantity map holds no level.
C18_ResetEmpties ==
  [][\A anchor \in AnchorsIn : Reset(anchor) => C18_ResetPost(anchor)']_vars

\* a book for reset to clear: crossed on tape and overall, a level in the
\* spill, the two tapes at different anchors
C18_Witness ==
  /\ ~halted
  /\ crossed /\ crossed_on_tape
  /\ Len(spill.bid.a) + Len(spill.ask.a) > 0
  /\ bids.anchor_px # asks.anchor_px

\* ---- C19 : compute_anchor
\* C19: in a book built from either header, for every price p and every
\* offset in 0 .. N - 1, compute_anchor(p, offset) lies in
\* [min_price + N - 1, max_price - N + 1] and is p - offset whenever
\* p - offset lies in that range.
C19_ComputeAnchorClamped ==
  hdr \in Headers =>
    \A p \in PriceT, offset \in 0 .. N - 1 :
      /\ compute_anchor(p, offset) \in Anchors
      /\ (p - offset) \in Anchors => compute_anchor(p, offset) = p - offset

\* ---- C20 : spill order
\* C20: in every reachable state (after every push, drain, erase_better,
\* eviction and growth) each spill side is in strictly ascending price
\* order, so it holds no price twice, the bid side's best price is its last
\* element's and the ask side's best price is its first element's.
C20_SpillSorted ==
  \A b \in BOOLEAN :
    LET s == side_of(b)
    IN /\ \A i \in 1 .. Len(s.a) - 1 : s.a[i].px < s.a[i + 1].px
       /\ Cardinality(side_prices(s)) = Len(s.a)
       /\ Len(s.a) > 0 =>
            side_best_px(s, b) = (IF b THEN MaxOf(side_prices(s))
                                       ELSE MinOf(side_prices(s)))

\* a spill side grown to its capacity of two levels, in order, beside an
\* occupied tape
C20_Witness ==
  \E b \in BOOLEAN :
    /\ Len(side_of(b).a) = 2 /\ side_of(b).cap = 2
    /\ side_of(b).a[1].px < side_of(b).a[2].px
    /\ occupied(tape_of(b)) # {}

\* ---- C24 : the pool's free lists
Reverse(q) == [i \in 1 .. Len(q) |-> q[Len(q) + 1 - i]]

\* the pointers k successive allocate(cap) calls return
RECURSIVE take_all(_, _, _)
take_all(p, cap, k) ==
  IF k = 0 THEN <<>>
  ELSE <<allocate(p, cap).ptr>> \o take_all(allocate(p, cap).pool, cap, k - 1)

\* C24: each class's free list is last in, first out.  With the free blocks
\* of a class given back in the order b1 .. bk, allocate for that class
\* returns bk and leaves the watermark alone, successive allocations return
\* bk .. b1, and only with an empty list does allocate take the block at the
\* watermark and raise the watermark by the class size.
C24_FreeListLifo ==
  \A cap \in CapsIn :
    \A r \in {allocate(pool, cap)} :
      LET cls == size_class(cap)
          fl == freed[cls]
      IN /\ free_list(pool, cls) = Reverse(fl)
         /\ take_all(pool, cap, Len(fl)) = Reverse(fl)
         /\ fl # <<>> =>
              /\ r.ptr = fl[Len(fl)]
              /\ r.pool.watermark = pool.watermark
         /\ r.pool.watermark # pool.watermark =>
              /\ fl = <<>>
              /\ r.ptr = pool.watermark
              /\ r.pool.watermark = pool.watermark + class_size(cls)

\* two free blocks of one class while the arena still has room for a third
C24_Witness ==
  \E c \in Classes :
    /\ Len(freed[c]) >= 2
    /\ alloc_fits(pool, class_size(c))

\* ---- C25 : exhaustion
\* C25: allocate returns null exactly when the class's free list is empty
\* and watermark + class size exceeds the arena's capacity; it then adds one
\* to alloc_fail_count and leaves the watermark, the free lists and the arena
\* as they were.  Otherwise it returns a block and leaves alloc_fail_count
\* alone.  Once a held block is given back, allocate for its class succeeds
\* even with the arena full.
C25_NullIffExhausted ==
  /\ \A cap \in CapsIn :
       \A r \in {allocate(pool, cap)} :
         LET cls == size_class(cap)
             full == /\ pool.free_heads[cls] = -1
                     /\ pool.watermark + class_size(cls) > pool.arena_cap
         IN /\ r.ptr = null <=> full
            /\ full =>
                 r.pool = [pool EXCEPT !.alloc_fail_count = @ + 1]
            /\ ~full =>
                 /\ r.ptr \in 0 .. pool.arena_cap - class_size(cls)
                 /\ r.pool.alloc_fail_count = pool.alloc_fail_count
  /\ \A b \in blocks, cap \in CapsIn :
       size_class(cap) = size_class(b.cap) =>
         allocate(deallocate(pool, b.off, b.cap), cap).ptr = b.off

\* after a failed allocation, with the arena too full for another block of
\* a class, a block of that class is on the free list
C25_Witness ==
  \E c \in Classes :
    /\ pool.alloc_fail_count > 0
    /\ ~alloc_fits(pool, class_size(c))
    /\ pool.free_heads[c] # -1
    /\ allocate(pool, class_size(c)).ptr # null

\* ---- C26 : reallocate
\* C26: reallocate(old, old_cap, new_cap, used) that succeeds returns a block
\* other than old whose first used levels are old's, and puts old at the head
\* of the free list of old_cap's class; with old = null it does what
\* allocate(new_cap) does.  One that fails returns null and leaves old
\* allocated, its levels and the free lists as they were.
C26_Reallocate ==
  /\ \A b \in blocks, new_cap \in CapsIn, used \in 0 .. 2 :
       (used <= b.cap /\ used <= new_cap) =>
         \A r \in {reallocate(pool, b.off, b.cap, new_cap, used)} :
           IF r.ptr # null
           THEN /\ r.ptr # b.off
                /\ \A i \in 0 .. used - 1 :
                     r.pool.mem[r.ptr + i] = pool.mem[b.off + i]
                /\ r.pool.free_heads[size_class(b.cap)] = b.off
                /\ \A o \in blocks \ {b} : r.ptr # o.off
           ELSE /\ r.pool.mem = pool.mem
                /\ r.pool.free_heads = pool.free_heads
                /\ r.pool.watermark = pool.watermark
  /\ \A new_cap \in CapsIn :
       reallocate(pool, null, 0, new_cap, 0) = allocate(pool, new_cap)

\* a held block with levels written into it that can be reallocated
C26_Witness ==
  \E b \in blocks :
    /\ b.cap = 2
    /\ pool.mem[b.off] >= 10 /\ pool.mem[b.off + 1] >= 10
    /\ reallocate(pool, b.off, b.cap, 4, 2).ptr # null

\* ---- C27 : size classes
\* smallest k with 2^k >= x
RECURSIVE ceil_log2(_)
ceil_log2(x) == IF x <= 1 THEN 0 ELSE 1 + ceil_log2((x + 1) \div 2)

\* the max_cap values of the pooled buffers considered: powers of two
PoolMaxCaps == {1, 2, 4, 8}

\* the capacities a side of the given max_cap asks the pool for as it grows
RECURSIVE grow_caps(_)
grow_caps(s) ==
  IF ensure_cap(s).cap = s.cap THEN {}
  ELSE {ensure_cap(s).cap} \cup grow_caps(ensure_cap(s))

\* C27: for every capacity cap a spill side asks for (every power-of-two
\* max_cap and every doubled capacity on the way to it), the class chosen is
\* ceil(log2(max(cap, MIN_BLOCK))) - log2(MIN_BLOCK) clamped to the classes
\* there are, and the block allocate hands out has at least cap levels.
C27_BlockHoldsCap ==
  \A mc \in PoolMaxCaps :
    \A cap \in grow_caps(SideNew(mc)) :
      LET c == ceil_log2(IF cap > MIN_BLOCK THEN cap ELSE MIN_BLOCK)
                 - MIN_BLOCK_LOG2
          cl == IF c < 0 THEN 0
                ELSE IF c > NUM_CLASSES - 1 THEN NUM_CLASSES - 1 ELSE c
      IN /\ size_class(cap) = cl
         /\ class_size(size_class(cap)) = MIN_BLOCK * (2 ^ cl)
         /\ class_size(size_class(cap)) >= cap
         /\ \A r \in {allocate(pool, cap)} :
              (r.ptr # null /\ r.ptr = pool.watermark) =>
                r.pool.watermark - r.ptr >= cap

\* ---- C30 : set_qty inside the window
\* C30: from every reachable state, for every price p in a tape's window and
\* every quantity q, set_qty(p, q) returns Insert exactly when the cell was
\* zero and q is not, Update exactly when neither is zero and Erase exactly
\* when q is zero; afterwards the cell holds q, every other cell is as it
\* was, nothing has gone to the sink, and an Update leaves best_idx alone.
C30_InWindowClassified ==
  \A b \in BOOLEAN, p \in PriceT, q \in QtyT :
    p \in window(tape_of(b)) =>
      \A r \in {set_qty(hdr, tape_of(b), b, p, q)} :
        LET t == tape_of(b)
            i == p - t.anchor_px
        IN /\ r.rc = "Insert" <=> (t.qty[i] = 0 /\ q # 0)
           /\ r.rc = "Update" <=> (t.qty[i] # 0 /\ q # 0)
           /\ r.rc = "Erase" <=> q = 0
           /\ r.t.qty = [t.qty EXCEPT ![i] = q]
           /\ r.t.anchor_px = t.anchor_px
           /\ r.push = <<>>
           /\ r.rc = "Update" => r.t.best_idx = t.best_idx

\* ---- C22 : eviction keeps the best
\* the levels a side holds, on its tape and in its spill side
levels_of(t, s) ==
  {[px |-> p, qty |-> tape_qty(t, p)] : p \in tape_prices(t)}
    \cup {s.a[i] : i \in 1 .. Len(s.a)}

\* px and qty are the price and quantity of a best level of L
best_among(L, IsBid, px, qty) ==
  /\ [px |-> px, qty |-> qty] \in L
  /\ \A l \in L : IF IsBid THEN l.px <= px ELSE l.px >= px

C21_ExhaustedPushDrops ==
  \A i \in Slots, b \in BOOLEAN, px \in BufPxIn, q \in 1 .. MaxQty :
    (/\ bufs[i].live
     /\ set_qty(hdr, buf_tape(bufs[i], b), b, px, q).rc # "Promote") =>
      \A r \in {buf_set(hdr, pool, bufs[i], b, px, q)} :
        r.failed =>
          /\ ~r.trap
          /\ r.book = bufs[i]
          /\ r.pool = [pool EXCEPT !.alloc_fail_count = @ + 1]

\* ---- C23 : moves of pool-backed books
\* levels of the arena taken by the block of a side, by the books of slots
\* 1 .. i and by the free blocks of classes 0 .. c
side_block(s) == IF s.blk = null THEN 0 ELSE class_size(size_class(s.cap))

RECURSIVE owned_levels(_)
owned_levels(i) ==
  IF i = 0 THEN 0
  ELSE side_block(bufs[i].bid) + side_block(bufs[i].ask) + owned_levels(i - 1)

RECURSIVE free_levels(_)
free_levels(c) ==
  IF c < 0 THEN 0
  ELSE Len(free_list(pool, c)) * class_size(c) + free_levels(c - 1)

\* the sides that own a block
owners == {o \in Slots \X BOOLEAN : buf_side(bufs[o[1]], o[2]).blk # null}

\* what a move makes of source o: dst holds what o held and answers the
\* best queries as o did, src is left with empty sides and o's pool pointer
C23_Moved(o, dst, src) ==
  /\ dst.live /\ src.live
  /\ dst.pool_ = o.pool_ /\ src.pool_ = o.pool_
  /\ \A b \in BOOLEAN :
       /\ buf_side(dst, b) = buf_side(o, b)
       /\ buf_tape(dst, b) = buf_tape(o, b)
       /\ book_best_px(buf_tape(dst, b), buf_side(dst, b), b)
            = book_best_px(buf_tape(o, b), buf_side(o, b), b)
       /\ book_best_qty(buf_tape(dst, b), buf_side(dst, b), b)
            = book_best_qty(buf_tape(o, b), buf_side(o, b), b)
       /\ Len(buf_side(src, b).a) = 0
       /\ buf_side(src, b).cap = 0
       /\ buf_side(src, b).blk = null

\* C23: in every reachable state of the pool-backed books, move
\* construction and move assignment from a live book give the destination
\* the source's levels, blocks and pool pointer, with the source's answers
\* to the best queries, and leave the source's sides with length 0,
\* capacity 0, a null block and its pool pointer; move assignment puts the
\* destination's previous blocks on the pool's free lists; and at all times
\* no block is owned by two sides, no owned block is on a free list, no
\* block is on a free list twice, and the owned and the free blocks together
\* are exactly the levels below the watermark.
C23_MoveTransfers ==
  /\ \A j \in Slots :
       bufs[j].live =>
         \A r \in {move_construct(bufs[j])} : C23_Moved(bufs[j], r.dst, r.src)
  /\ \A i \in Slots, j \in Slots :
       (i # j /\ bufs[i].live /\ bufs[j].live) =>
         \A r \in {move_assign(pool, bufs[i], bufs[j])} :
           /\ C23_Moved(bufs[j], r.dst, r.src)
           /\ r.pool.watermark = pool.watermark
           /\ \A b \in BOOLEAN :
                buf_side(bufs[i], b).blk # null =>
                  buf_side(bufs[i], b).blk \in
                    Range(free_list(r.pool, size_class(buf_side(bufs[i], b).cap)))
  /\ \A o1 \in owners, o2 \in owners :
       o1 # o2 => buf_side(bufs[o1[1]], o1[2]).blk # buf_side(bufs[o2[1]], o2[2]).blk
  /\ \A o \in owners :
       /\ bufs[o[1]].live
       /\ \A c \in Classes :
            buf_side(bufs[o[1]], o[2]).blk \notin Range(free_list(pool, c))
  /\ \A c \in Classes :
       Cardinality(Range(free_list(pool, c))) = Len(free_list(pool, c))
  /\ owned_levels(NBufs) + free_levels(NUM_CLASSES - 1) = pool.watermark

\* a book that owns a block on each side beside a live book with the same
\* occupied tapes and no block, with a released block on a free list
C23_Witness ==
  \E i \in Slots, j \in Slots :
    /\ i # j /\ bufs[i].live /\ bufs[j].live
    /\ bufs[i].bid.blk # null /\ bufs[i].ask.blk # null
    /\ bufs[j].bid.blk = null /\ bufs[j].ask.blk = null
    /\ bufs[j].bids = bufs[i].bids /\ bufs[j].asks = bufs[i].asks
    /\ occupied(bufs[i].bids) # {} /\ occupied(bufs[i].asks) # {}
    /\ \E c \in Classes : pool.free_heads[c] # -1

\* ---- C28 : handles of the multi-book pool
\* C28: in every reachable state of a live MultiBookPool3, for every tier,
\* anchor and max_cap, alloc returns the handle of that tier whose idx is the
\* number of books the tier held, the book the handle reaches afterwards is
\* empty with both tapes anchored at anchor, every handle handed out before
\* reaches the book it reached, with its tapes, spill levels and blocks as
\* they were, also when the tier's storage is relocated, and the pool is
\* as it was.
C28_HandlesStable ==
  mbp.destroyed = 0 =>
    \A tier \in Tiers, anchor_px \in MbAnchorsIn, max_cap \in MbMaxCapsIn :
      \A r \in {mb_alloc(mbp, pool, tier, anchor_px, max_cap)} :
        /\ r.h = [tier |-> tier, idx |-> Len(vec_of(mbp, tier).items)]
        /\ handles(r.mbp) = handles(mbp) \cup {r.h}
        /\ r.h \notin handles(mbp)
        /\ with_book(r.mbp, r.h).bids.anchor_px = anchor_px
        /\ with_book(r.mbp, r.h).asks.anchor_px = anchor_px
        /\ occupied(with_book(r.mbp, r.h).bids) = {}
        /\ occupied(with_book(r.mbp, r.h).asks) = {}
        /\ Len(with_book(r.mbp, r.h).bid.a) = 0
        /\ Len(with_book(r.mbp, r.h).ask.a) = 0
        /\ \A h \in handles(mbp) : with_book(r.mbp, h) = with_book(mbp, h)
        /\ r.pool = pool

\* a tier whose storage is full with two books, the first of them holding a
\* level on its tape and a spilled level in a block of the pool
C28_Witness ==
  \E tier \in Tiers :
    /\ mbp.destroyed = 0
    /\ Len(vec_of(mbp, tier).items) = 2
    /\ vec_of(mbp, tier).capacity = 2
    /\ \E b \in BOOLEAN :
         /\ buf_side(vec_of(mbp, tier).items[1], b).blk # null
         /\ Len(buf_side(vec_of(mbp, tier).items[1], b).a) > 0
         /\ occupied(buf_tape(vec_of(mbp, tier).items[1], b)) # {}

\* ---- C29 : destruction of the multi-book pool
\* C29: while a MultiBookPool3 that owns a pool is destroyed, no deallocate
\* is issued to the pool once the pool has been torn down, and when the
\* arena is freed every tier's books are gone and every block ever handed
\* out is back on a free list.
C29_BooksReleaseFirst ==
  /\ ~mbp.late
  /\ ~pool.alive =>
       /\ \A tier \in Tiers : vec_of(mbp, tier).items = <<>>
       /\ free_levels(NUM_CLASSES - 1) = pool.watermark

\* the pool torn down after books of two tiers have given back a block each
C29_Witness ==
  /\ ~pool.alive
  /\ mbp.destroyed = Len(destroy_order)
  /\ pool.watermark >= 2 * MIN_BLOCK
  /\ Len(free_list(pool, 0)) >= 2

\* ---- C31 : Promote mutates nothing
\* C31: from every reachable state, for either side, every price and every
\* quantity, whenever set_qty returns Promote the tape it leaves (cells,
\* bitmap, anchor, best index) is the tape it was given and no call has been
\* made to the sink.
C31_PromoteMutatesNothing ==
  \A b \in BOOLEAN, p \in PriceT, q \in QtyT :
    \A r \in {set_qty(hdr, tape_of(b), b, p, q)} :
      r.rc = "Promote" =>
        /\ r.t.qty = tape_of(b).qty
        /\ r.t.bits = tape_of(b).bits
        /\ r.t.anchor_px = tape_of(b).anchor_px
        /\ r.t.best_idx = tape_of(b).best_idx
        /\ r.push = <<>>

\* a tape that holds a level and a tape that holds none, each asked for a
\* price that makes set_qty return Promote
C31_Witness ==
  /\ \E b \in BOOLEAN, p \in PriceT :
       /\ ~is_empty(tape_of(b), b)
       /\ set_qty(hdr, tape_of(b), b, p, 1).rc = "Promote"
  /\ \E b \in BOOLEAN, p \in PriceT :
       /\ is_empty(tape_of(b), b)
       /\ set_qty(hdr, tape_of(b), b, p, 1).rc = "Promote"

\* ---- C32 : recenter_to_anchor
\* C32: from every reachable state, for either side and every valid anchor
\* A, recenter_to_anchor(A, sink) with d = A - anchor: for d = 0 leaves the
\* tape alone and the sink uncalled; otherwise hands to the sink, once each,
\* exactly the levels whose price is outside [A, A + N - 1], with their
\* quantities, sets the anchor to A and leaves at index p - A the quantity
\* the tape held at p for every p of the new window (zero where it held
\* none); for |d| >= N the levels reach the sink in ascending order and the
\* tape ends empty.
C32_RecenterToAnchor ==
  \A b \in BOOLEAN, A \in Anchors :
    \A r \in {recenter_to_anchor(hdr, tape_of(b), b, A)} :
      LET t == tape_of(b)
          d == A - t.anchor_px
          out == {p \in tape_prices(t) : p < A \/ p > A + N - 1}
      IN IF d = 0
         THEN r.t = t /\ r.push = <<>>
         ELSE /\ Range(r.push) = {[px |-> p, qty |-> tape_qty(t, p)] : p \in out}
              /\ Len(r.push) = Cardinality(out)
              /\ r.t.anchor_px = A
              /\ \A i \in 0 .. N - 1 :
                   r.t.qty[i] = IF A + i \in tape_prices(t)
                                THEN tape_qty(t, A + i) ELSE 0
              /\ (d >= N \/ d <= -N) =>
                   /\ \A j \in 1 .. Len(r.push) - 1 :
                        r.push[j].px < r.push[j + 1].px
                   /\ is_empty(r.t, b)

C34_FullPush ==
  \A b \in BOOLEAN, p \in PriceT, q \in QtyT :
    \A s \in {side_of(b)} :
      Len(s.a) = s.max_cap =>
        \A r \in {add_point(s, b, p, q).s} :
          LET worst == IF b THEN s.a[1] ELSE s.a[Len(s.a)]
              better == IF b THEN p > worst.px ELSE p < worst.px
          IN IF p \in side_prices(s)
             THEN /\ side_prices(r) = side_prices(s) \ (IF q = 0 THEN {p} ELSE {})
                  /\ \A x \in side_prices(r) :
                       side_qty(r, x) = IF x = p THEN q ELSE side_qty(s, x)
                  /\ Len(r.a) = Cardinality(side_prices(r))
             ELSE IF q # 0 /\ better
             THEN /\ Range(r.a) = (Range(s.a) \ {worst}) \cup {[px |-> p, qty |-> q]}
                  /\ \A j \in 1 .. Len(r.a) - 1 : r.a[j].px < r.a[j + 1].px
                  /\ Len(r.a) = s.max_cap
             ELSE r = s

\* a side full at a max_cap of several levels from which one push evicts
\* the worst level and lands between two kept levels, and another is
\* dropped
C34_Witness ==
  \E b \in BOOLEAN :
    /\ Len(side_of(b).a) = side_of(b).max_cap
    /\ side_of(b).max_cap > 2
    /\ lossy
    /\ \E p \in PriceT :
         /\ p \notin side_prices(side_of(b))
         /\ add_point(side_of(b), b, p, 1).s # side_of(b)
         /\ lb(add_point(side_of(b), b, p, 1).s.a, p) \in 1 .. side_of(b).max_cap - 2
    /\ \E p \in PriceT :
         /\ p \notin side_prices(side_of(b))
         /\ add_point(side_of(b), b, p, 1).s = side_of(b)

\* ---- C35 : growth below max_cap loses nothing
\* C35: from every reachable state of a spill buffer (malloc succeeding),
\* for a side that holds fewer than max_cap levels, every price p it does
\* not hold and every non-zero quantity q: the push evicts and drops
\* nothing, the side afterwards holds the levels it held, in their order,
\* and (p, q) at its sorted position; when the side was full (n = cap) its
\* capacity is afterwards FIRST_CAP if it was 0 and twice what it was
\* otherwise, clamped to max_cap, and when it was not full its capacity is
\* what it was.
C35_GrowthKeepsLevels ==
  \A b \in BOOLEAN, p \in PriceT, q \in 1 .. MaxQty :
    \A s \in {side_of(b)} :
      (Len(s.a) < s.max_cap /\ p \notin side_prices(s)) =>
        \A r \in {add_point(s, b, p, q)} :
          /\ ~r.lost
          /\ Len(r.s.a) = Len(s.a) + 1
          /\ SelectSeq(r.s.a, LAMBDA lv : lv.px # p) = s.a
          /\ [px |-> p, qty |-> q] \in Range(r.s.a)
          /\ \A j \in 1 .. Len(r.s.a) - 1 : r.s.a[j].px < r.s.a[j + 1].px
          /\ r.s.cap = IF Len(s.a) < s.cap THEN s.cap
                       ELSE MinOf({s.max_cap,
                                   IF s.cap = 0 THEN FIRST_CAP ELSE 2 * s.cap})
          /\ r.s.max_cap = s.max_cap

\* a side full at a capacity that was doubled to max_cap by a push, no
\* level having been lost on the way
C35_Witness ==
  \E b \in BOOLEAN :
    /\ ~lossy
    /\ side_of(b).cap = 2 * FIRST_CAP
    /\ side_of(b).cap = side_of(b).max_cap
    /\ Len(side_of(b).a) = FIRST_CAP + 1

\* ---- C36 : drain of a price range
\* C36: from every reachable state of a spill buffer, for either side and
\* every lo and hi, drain(lo, hi, visitor) hands the visitor the stored
\* levels with lo <= price <= hi, once each and in ascending price order,
\* and leaves the side holding the other levels with their quantities in
\* the order they had and its capacity as it was; when no stored price is
\* in [lo, hi] (lo > hi included) nothing is visited and nothing changes.
C36_DrainExact ==
  \A b \in BOOLEAN, lo \in PriceT, hi \in PriceT :
    \A s \in {side_of(b)} :
      \A r \in {drain_range(s, lo, hi)} :
        /\ r.out = SelectSeq(s.a, LAMBDA lv : lo <= lv.px /\ lv.px <= hi)
        /\ r.s.a = SelectSeq(s.a, LAMBDA lv : ~(lo <= lv.px /\ lv.px <= hi))
        /\ r.s.cap = s.cap
        /\ r.s.max_cap = s.max_cap
        /\ \A j \in 1 .. Len(r.out) - 1 : r.out[j].px < r.out[j + 1].px
        /\ (\A x \in side_prices(s) : x < lo \/ x > hi) =>
             r.out = <<>> /\ r.s = s

\* a side of four levels from which a drain takes the two inner ones and
\* leaves one on each side of the range, a drain with lo = hi takes one
\* level, and a drain with lo > hi takes none
C36_Witness ==
  \E b \in BOOLEAN :
    /\ Len(side_of(b).a) = 4
    /\ \E lo \in SidePxIn, hi \in SidePxIn :
         /\ Len(drain_range(side_of(b), lo, hi).out) = 2
         /\ side_of(b).a[1] \in Range(drain_range(side_of(b), lo, hi).s.a)
         /\ side_of(b).a[4] \in Range(drain_range(side_of(b), lo, hi).s.a)
    /\ \E lo \in SidePxIn :
         Len(drain_range(side_of(b), lo, lo).out) = 1
    /\ \E lo \in SidePxIn, hi \in SidePxIn :
         /\ lo > hi
         /\ drain_range(side_of(b), lo, hi).s = side_of(b)

\* ---- C37 : iterate_from_best
\* C37: in every reachable state, for either side, iterate_from_best with
\* the side's spill and a visitor that never answers false visits the
\* tape's levels in strictly best-first price order, then the spill's
\* levels in strictly best-first price order, each level of the side once
\* with its stored quantity and no price twice; with a visitor that answers
\* false at its k-th call the visits are the first k of those and no more.
C37_IterateFromBest ==
  \A b \in BOOLEAN :
    \A all \in {iterate_from_best(tape_of(b), side_of(b), b, 0)} :
      LET nt == Cardinality(tape_prices(tape_of(b)))
          ns == Len(side_of(b).a)
          before(x, y) == IF b THEN x > y ELSE x < y
      IN /\ Len(all) = nt + ns
         /\ \A j \in 1 .. nt :
              /\ all[j].px \in tape_prices(tape_of(b))
              /\ all[j].qty = tape_qty(tape_of(b), all[j].px)
         /\ \A j \in 1 .. nt - 1 : before(all[j].px, all[j + 1].px)
         /\ \A j \in nt + 1 .. nt + ns :
              /\ all[j].px \in side_prices(side_of(b))
              /\ all[j].qty = side_qty(side_of(b), all[j].px)
         /\ \A j \in nt + 1 .. nt + ns - 1 : before(all[j].px, all[j + 1].px)
         /\ \A i \in 1 .. Len(all), j \in 1 .. Len(all) :
              all[i].px = all[j].px => i = j
         /\ \A k \in 1 .. Len(all) :
              iterate_from_best(tape_of(b), side_of(b), b, k) = SubSeq(all, 1, k)

\* ---- C38 : the pool's bookkeeping
\* the levels a block covers: a held block by the class of its capacity, a
\* free block by the class of the list it is on
C38_Extent(off, cls) == off .. off + class_size(cls) - 1

C38_HeldExtents == {C38_Extent(b.off, size_class(b.cap)) : b \in blocks}

C38_FreeExtents ==
  UNION {{C38_Extent(free_list(pool, c)[i], c) :
            i \in 1 .. Len(free_list(pool, c))} : c \in Classes}

\* C38: in every state the pool's caller reaches by allocate, deallocate
\* and reallocate, giving blocks back with the capacity it asked for: each
\* free-list head and each next_offset on a list is -1 or an offset in
\* [0, watermark); each list ends in -1 with no offset twice; the blocks on
\* the lists, taken with their list's class size, and the held blocks tile
\* [0, watermark) without overlap, so that a list holds only blocks of its
\* class and no held block is on a list; 0 <= watermark <= arena_cap; and
\* no allocate, deallocate or reallocate from the state lowers the
\* watermark.
C38_PoolBookkeeping ==
  /\ \A c \in Classes :
       \A fl \in {free_list(pool, c)} :
         /\ pool.free_heads[c] \in {-1} \cup (0 .. pool.watermark - 1)
         /\ \A i \in 1 .. Len(fl) :
              /\ fl[i] \in 0 .. pool.watermark - 1
              /\ pool.mem[fl[i]] \in {-1} \cup (0 .. pool.watermark - 1)
              /\ \A j \in 1 .. Len(fl) : fl[i] = fl[j] => i = j
         /\ fl # <<>> => pool.mem[fl[Len(fl)]] = -1
         /\ \A b \in blocks : b.off \notin Range(fl)
  /\ \A e1 \in C38_HeldExtents \cup C38_FreeExtents,
        e2 \in C38_HeldExtents \cup C38_FreeExtents :
       e1 # e2 => e1 \cap e2 = {}
  /\ C38_HeldExtents \cap C38_FreeExtents = {}
  /\ UNION (C38_HeldExtents \cup C38_FreeExtents) = 0 .. pool.watermark - 1
  /\ Cardinality(C38_HeldExtents) = Cardinality(blocks)
  /\ pool.watermark >= 0
  /\ pool.watermark <= pool.arena_cap
  /\ \A cap \in CapsIn : allocate(pool, cap).pool.watermark >= pool.watermark
  /\ \A b \in blocks :
       /\ deallocate(pool, b.off, b.cap).watermark = pool.watermark
       /\ \A cap \in CapsIn :
            reallocate(pool, b.off, b.cap, cap, 0).pool.watermark >= pool.watermark

\* ---- C39 : books that share a pool
\* the levels of the arena a side takes as its own: a[0 .. cap - 1]
C39_Storage(s) == IF s.blk = null THEN {} ELSE s.blk .. s.blk + s.cap - 1

\* the blocks of book B are neither on a free list of pool p nor the block
\* of a side of book A
C39_Apart(p, A, B) ==
  \A b \in BOOLEAN :
    buf_side(B, b).blk # null =>
      /\ \A c \in Classes : buf_side(B, b).blk \notin Range(free_list(p, c))
      /\ \A a \in BOOLEAN : buf_side(A, a).blk # buf_side(B, b).blk

\* C39: in every reachable state of the books that share a pool, the
\* storage of distinct spill sides (the cap levels from the side's block
\* pointer) does not overlap, and a set on one book and its destruction
\* leave every block of the other book off the free lists and out of that
\* book's hands (the other book's tapes and levels are not handed to the
\* operation at all).
C39_BooksApart ==
  /\ \A o1 \in owners, o2 \in owners :
       o1 # o2 =>
         C39_Storage(buf_side(bufs[o1[1]], o1[2]))
           \cap C39_Storage(buf_side(bufs[o2[1]], o2[2])) = {}
  /\ \A i \in Slots, j \in Slots :
       (i # j /\ bufs[i].live /\ bufs[j].live) =>
         /\ \A b \in BOOLEAN, px \in BufPxIn \cup {-5, -1} :
              set_qty(hdr, buf_tape(bufs[i], b), b, px, 1).rc # "Promote" =>
                \A r \in {buf_set(hdr, pool, bufs[i], b, px, 1)} :
                  C39_Apart(r.pool, r.book, bufs[j])
         /\ C39_Apart(release_both(pool, bufs[i]), NoBook, bufs[j])

\* ---- C40 : the shape of a spill side
\* C40: in every reachable state of a spill buffer, each side has
\* n <= cap <= max_cap (n, the length of the level sequence, is never
\* negative) and holds no level of quantity zero; and no push, drain,
\* erase_better or clear from the state leaves a side with less capacity
\* than it had, while release leaves it with capacity 0 and no level.
C40_SideShape ==
  \A b \in BOOLEAN :
    \A s \in {side_of(b)} :
      /\ Len(s.a) >= 0
      /\ Len(s.a) <= s.cap
      /\ s.cap <= s.max_cap
      /\ \A i \in 1 .. Len(s.a) : s.a[i].qty # 0
      /\ \A p \in PriceT, q \in QtyT : add_point(s, b, p, q).s.cap >= s.cap
      /\ \A lo \in SidePxIn, hi \in SidePxIn :
           drain_range(s, lo, hi).s.cap >= s.cap
      /\ \A th \in SidePxIn : side_erase_better(s, b, th).cap >= s.cap
      /\ side_clear(s).cap >= s.cap
      /\ side_release(s).cap = 0
      /\ side_release(s).a = <<>>

\* one side full at a max_cap of several levels beside a side that has
\* grown and holds no level any more
C40_Witness ==
  \E b \in BOOLEAN :
    /\ side_of(b).max_cap > FIRST_CAP
    /\ Len(side_of(b).a) = side_of(b).max_cap
    /\ side_of(~b).cap > 0
    /\ side_of(~b).a = <<>>

====
